---- MODULE Spec2Model ----
(***************************************************************************)
(* Model of the ecospace-backend catalog services: the Soil write path     *)
(* (create / partial update with the pH consistency rule and the derived   *)
(* phType), the GrowthStage write path (day-range rule) and the paginated  *)
(* list endpoints of Plant and Soil.                                       *)
(*                                                                         *)
(* Conventions:                                                            *)
(*  - JavaScript `undefined`/`null`/absent request keys are the integer    *)
(*    Undefined (-1); every real pH, day count, limit or page is >= 0 or   *)
(*    handled explicitly.  Truthy(x) is JavaScript truthiness of a number  *)
(*    or undefined: 0 and undefined are falsy.                             *)
(*  - pH values are modelled on the integer grid of 0..14.                 *)
(*  - An HTTP response is the record the controller passes to res.json.    *)
(***************************************************************************)
EXTENDS Integers, Sequences, FiniteSets, TLC

VARIABLES
    soils,        \* Soil table: id -> row (attribute names of db/models/Soil.js)
    soilResp,     \* last response sent by a Soil write handler
    stages,       \* GrowthStage table: id -> row
    stageResp,    \* last response sent by a GrowthStage write handler
    listResp,     \* last response sent by a list handler (or NoList)
    routeResp,    \* last response sent by a list route (validator + handler)
    pestTypes,    \* PestType table: id -> row
    pestTypeRev,  \* which revision of the PestType model and service is deployed
    pestTypeResp, \* last response of a PestType handler or service call
    pests,        \* Pest table: id -> row
    pestResp,     \* last response sent by a Pest handler
    pathogenTypes,    \* PathogenType table: id -> row
    pathogenTypeResp, \* last response sent by a PathogenType handler
    arrayResp,        \* last outcome of a list-valued field's validation chain
    plants,           \* Plant table: id -> row
    plantResp,        \* last response sent by a Plant write handler
    soilReqs,         \* Soil requests in flight: request slot -> position and locals
    patchCalls,       \* statuses of the res.status(..).json(..) calls made by the
                      \* patchUpdatePestTypeById invocation answered in pestTypeResp
    pestTypesA,       \* PestType table of the isActive revision, run side by side
    pestTypesP,       \* PestType table of the paranoid revision, run side by side
    pairResp,         \* what the two revisions returned for the last service call
    listRecords,      \* the records a list query matches: id -> createdAt
    listing           \* the pages fetched so far with one sort and one limit

\* The variables of the pest catalogue
pestVars == <<pestTypes, pestTypeRev, pestTypeResp, pests, pestResp>>

\* The variables of the soil, growth-stage, list and pest subsystems
coreVars == <<soils, soilResp, stages, stageResp, listResp, routeResp, pestVars>>

\* The variables of the pathogen-type catalogue
pathogenVars == <<pathogenTypes, pathogenTypeResp>>

\* The variables of the plant write path
plantVars == <<plants, plantResp>>

\* The variables of the handlers modelled step by step
stepVars == <<soilReqs>>

\* The variables that record the calls a handler makes on its response
callVars == <<patchCalls>>

\* The variables of the two PestType service revisions run side by side
pairVars == <<pestTypesA, pestTypesP, pairResp>>

\* The variables of the page-by-page listing
pageVars == <<listRecords, listing>>

\* The variables added for the later subsystems
lateVars == <<pairVars, pageVars>>

\* The variables outside coreVars
extVars == <<pathogenVars, arrayResp, plantVars, stepVars, callVars, lateVars>>

\* What the actions of one subsystem leave unchanged of the other subsystems
exceptPathogen == <<coreVars, arrayResp, plantVars, stepVars, callVars, lateVars>>
exceptArray == <<coreVars, pathogenVars, plantVars, stepVars, callVars, lateVars>>
exceptPlant == <<coreVars, pathogenVars, arrayResp, stepVars, callVars, lateVars>>
exceptSoilReqs ==
    <<soilResp, stages, stageResp, listResp, routeResp, pestVars,
      pathogenVars, arrayResp, plantVars, callVars, lateVars>>
exceptCalls == <<pathogenVars, arrayResp, plantVars, stepVars, lateVars>>
exceptPair == <<coreVars, pathogenVars, arrayResp, plantVars, stepVars, callVars, pageVars>>
exceptPage == <<coreVars, pathogenVars, arrayResp, plantVars, stepVars, callVars, pairVars>>

vars == <<coreVars, extVars>>

----------------------------------------------------------------------------
(* JavaScript values *)

Undefined == 0 - 1

\* `if (x)` on a number or undefined
Truthy(x) == x # Undefined /\ x # 0

\* x > y, x < y where either side may be undefined (comparison with
\* undefined is always false in JavaScript)
JsGt(x, y) == x # Undefined /\ y # Undefined /\ x > y
JsLt(x, y) == x # Undefined /\ y # Undefined /\ x < y

\* An absent string-valued key of a request, or a null string column
Absent == "absent"

\* `if (str)` on a string or undefined
TruthyStr(str) == str # Absent /\ str # ""

\* obj[key] of a plain object: undefined when the key is not there
Prop(obj, key) == IF key \in DOMAIN obj THEN obj[key] ELSE Undefined

----------------------------------------------------------------------------
(* Bounds of the model *)

MaxSoils == 1
MaxStages == 2
MaxDays == 4

SoilIds == 1..MaxSoils
StageIds == 1..MaxStages

\* pH request values tried by the model: both ends of the valid range, the
\* neutral point and one value on each side of it
PhInputs == {0, 6, 7, 8, 14}
\* one value outside the validator's range
PhOutOfRange == 15

----------------------------------------------------------------------------
(* Program constants *)

PH_FLOAT_MIN == 0
PH_FLOAT_MAX == 14
PH_NEUTRAL == 7

ACIDIC == "acidic"
ALKALINE == "alkaline"
NEUTRAL == "neutral"
NoPhType == "null"

----------------------------------------------------------------------------
(* Soil table *)

\* Soil names the model issues (the name column is unique)
SoilNameInputs == {"loam", "clay"}

\* A row of the soils table, keyed by the model's attribute names.  idUsed:
\* the primary key has been issued (a UUID is not issued twice)
SoilRow(name, phMin, phMax, phType) ==
    [exists |-> TRUE, idUsed |-> TRUE, name |-> name,
     phMin |-> phMin, phMax |-> phMax, phType |-> phType]

NoSoil ==
    [exists |-> FALSE, idUsed |-> FALSE, name |-> Absent,
     phMin |-> Undefined, phMax |-> Undefined, phType |-> NoPhType]

\* Soil.findByPk(id): the row or null
SoilFindByPk(id) == IF id \in SoilIds /\ soils[id].exists THEN soils[id] ELSE NoSoil

\* instance.toJSON(): the plain object of the row, keyed by attribute name
SoilToJSON(row) ==
    [name |-> row.name, phMin |-> row.phMin, phMax |-> row.phMax, phType |-> row.phType]

\* The phType expression shared by saveSoil and updateSoilDetails
DerivePhType(phMin, phMax) ==
    IF JsGt(phMax, PH_NEUTRAL) THEN ALKALINE
    ELSE IF JsLt(phMin, PH_NEUTRAL) THEN ACIDIC
    ELSE NEUTRAL

\* The unique index on name: some row other than `id` has the name
SoilNameTaken(name, id) == \E i \in SoilIds : i # id /\ soils[i].exists /\ soils[i].name = name

\* The response a Soil handler sends, with the request values it answered
SoilResponse(op, status, message, id, errors, nameReq, phMinReq, phMaxReq) ==
    [op |-> op, status |-> status, message |-> message, id |-> id,
     errors |-> errors, nameReq |-> nameReq, phMinReq |-> phMinReq, phMaxReq |-> phMaxReq]

NoSoilResp == SoilResponse("none", 0, "", 0, {}, Absent, Undefined, Undefined)

----------------------------------------------------------------------------
(* express-validator chains of createSoilValidator *)

\* Decimal digits of a small natural number, as String(n) writes them
DecStr(n) == IF n < 10 THEN <<n>> ELSE <<n \div 10, n % 10>>

\* s < t on strings of digits (JavaScript compares two strings by code unit)
StrLt(s, t) ==
    \/ \E i \in 1..Len(s) :
          /\ i <= Len(t)
          /\ \A j \in 1..(i - 1) : s[j] = t[j]
          /\ s[i] < t[i]
    \/ /\ Len(s) < Len(t)
       /\ \A j \in 1..Len(s) : s[j] = t[j]

\* isFloat({ min: 0, max: 14 })
IsPhFloat(v) == v >= PH_FLOAT_MIN /\ v <= PH_FLOAT_MAX

\* body("name"): trim, notEmpty (an absent name is empty too)
NameChainFails(nameRaw) == nameRaw = Absent \/ nameRaw = ""

\* body("ph_min"): optional, isFloat + bail, custom against the raw ph_max
PhMinChainFails(phMinRaw, phMaxRaw) ==
    /\ phMinRaw # Undefined
    /\ \/ ~IsPhFloat(phMinRaw)
       \/ Truthy(phMaxRaw) /\ phMinRaw > phMaxRaw

\* body("ph_max"): optional, isFloat + bail, custom against req.body.ph_min,
\* which the ph_min chain has by now turned into a float, or left as the
\* trimmed string when its isFloat failed and bailed
PhMaxChainFails(phMinRaw, phMaxRaw) ==
    /\ phMaxRaw # Undefined
    /\ \/ ~IsPhFloat(phMaxRaw)
       \/ /\ phMinRaw # Undefined
          /\ IF IsPhFloat(phMinRaw)
             THEN Truthy(phMinRaw) /\ phMaxRaw < phMinRaw
             ELSE StrLt(DecStr(phMaxRaw), DecStr(phMinRaw))

\* A validator that stops at the first failing chain
createSoilValidatorFailFast(nameRaw, phMinRaw, phMaxRaw) ==
    IF NameChainFails(nameRaw) THEN {"name"}
    ELSE IF PhMinChainFails(phMinRaw, phMaxRaw) THEN {"ph_min"}
    ELSE IF PhMaxChainFails(phMinRaw, phMaxRaw) THEN {"ph_max"}
    ELSE {}

\* validationResult(req).array(), as the set of failing fields: every chain
\* of the array is run
createSoilValidator(nameRaw, phMinRaw, phMaxRaw) ==
    (IF NameChainFails(nameRaw) THEN {"name"} ELSE {})
    \cup (IF PhMinChainFails(phMinRaw, phMaxRaw) THEN {"ph_min"} ELSE {})
    \cup (IF PhMaxChainFails(phMinRaw, phMaxRaw) THEN {"ph_max"} ELSE {})

----------------------------------------------------------------------------
(* POST /soils : createSoilValidator, validationErrorHandler, createSoil,   *)
(* saveSoil                                                                *)

\* `if (phMax) soilDetails.phMax = phMax`: a falsy value is left out
IfTruthy(v) == IF Truthy(v) THEN v ELSE Undefined

\* saveSoil: phType is set only if both bounds are truthy
saveSoil(name, phMin, phMax) ==
    SoilRow(name, phMin, phMax,
            IF Truthy(phMin) /\ Truthy(phMax) THEN DerivePhType(phMin, phMax) ELSE NoPhType)

FreeSoilIds == {i \in SoilIds : ~soils[i].idUsed}

\* Soil.create fails on the unique index of name; saveSoil catches every
\* error and throws "Failed to save soil", which createSoil answers with 500
CreateSoil(nameRaw, phMinRaw, phMaxRaw) ==
    LET errors == createSoilValidator(nameRaw, phMinRaw, phMaxRaw)
        phMin == IfTruthy(phMinRaw)
        phMax == IfTruthy(phMaxRaw)
        Reply(status, message, id, errs) ==
            SoilResponse("create", status, message, id, errs, nameRaw, phMinRaw, phMaxRaw)
    IN  /\ (errors = {} /\ ~SoilNameTaken(nameRaw, 0)) => FreeSoilIds # {}
        /\ IF errors # {}
           THEN /\ soilResp' = Reply(400, "Validation error", 0, errors)
                /\ UNCHANGED soils
           ELSE IF SoilNameTaken(nameRaw, 0)
           THEN /\ soilResp' = Reply(500, "Failed to save soil", 0, {})
                /\ UNCHANGED soils
           ELSE LET id == CHOOSE i \in FreeSoilIds : \A j \in FreeSoilIds : i <= j
                IN  /\ soils' = [soils EXCEPT ![id] = saveSoil(nameRaw, phMin, phMax)]
                    /\ soilResp' = Reply(201, "Soil created successfully", id, {})
        /\ UNCHANGED <<extVars, stages, stageResp, listResp, routeResp, pestVars>>

\* The response has been written to the client; the next Soil request can
\* be served
SoilSent ==
    /\ soilResp # NoSoilResp
    /\ soilResp' = NoSoilResp
    /\ UNCHANGED <<extVars, soils, stages, stageResp, listResp, routeResp, pestVars>>

----------------------------------------------------------------------------
(* PATCH /soils/:soil_id : updateSoilDetailsById, updateSoilDetails         *)

\* The branch of updateSoilDetails that checks the bounds and derives phType
\* is entered on this condition
PhCheckApplies(phMinDb, phMaxDb, phMin, phMax) ==
    \/ Truthy(phMaxDb) /\ Truthy(phMinDb)
    \/ ~Truthy(phMaxDb) /\ ~Truthy(phMinDb) /\ Truthy(phMax) /\ Truthy(phMin)

PhMinGreater(phMinDb, phMaxDb, phMin, phMax) ==
    \/ Truthy(phMin) /\ ~Truthy(phMax) /\ JsGt(phMin, phMaxDb)
    \/ Truthy(phMax) /\ Truthy(phMin) /\ JsGt(phMin, phMax)

PhMaxLesser(phMinDb, phMaxDb, phMin, phMax) ==
    \/ Truthy(phMax) /\ ~Truthy(phMin) /\ JsLt(phMax, phMinDb)
    \/ Truthy(phMax) /\ Truthy(phMin) /\ JsLt(phMax, phMin)

\* Soil.update(soilDetails, ...): only the attributes present in soilDetails
\* are written
SoilUpdateRow(row, name, phMin, phMax, phType) ==
    SoilRow(IF name # Absent THEN name ELSE row.name,
            IF phMin # Undefined THEN phMin ELSE row.phMin,
            IF phMax # Undefined THEN phMax ELSE row.phMax,
            IF phType # NoPhType THEN phType ELSE row.phType)

\* An updateSoilDetails that writes the details first and checks the bounds
\* afterwards
updateSoilDetailsWriteFirst(id, name, phMin, phMax, hasOther) ==
    LET soil == SoilFindByPk(id)
        json == SoilToJSON(soil)
        phMaxDb == Prop(json, "ph_max")
        phMinDb == Prop(json, "ph_min")
        checks == PhCheckApplies(phMinDb, phMaxDb, phMin, phMax)
        written == SoilUpdateRow(soil, name, phMin, phMax, NoPhType)
    IN  IF ~soil.exists THEN [outcome |-> "null", row |-> soil]
        ELSE IF checks /\ ( \/ PhMinGreater(phMinDb, phMaxDb, phMin, phMax)
                            \/ PhMaxLesser(phMinDb, phMaxDb, phMin, phMax) )
             THEN [outcome |-> "throw", row |-> written]
        ELSE [outcome |-> "updated", row |-> written]

\* updateSoilDetails(soilId, soilDetails): outcome and the row as the call
\* leaves it in the table.
\* The stored bounds are read from soil.toJSON() under the keys ph_max/ph_min.
\* hasOther: soilDetails carries color or description.  Every error of the
\* try block, the unique index of name included, is caught and thrown again
\* as "Failed to update soil".
updateSoilDetails(id, name, phMin, phMax, hasOther) ==
    LET soil == SoilFindByPk(id)
        json == SoilToJSON(soil)
        phMaxDb == Prop(json, "ph_max")
        phMinDb == Prop(json, "ph_min")
        checks == PhCheckApplies(phMinDb, phMaxDb, phMin, phMax)
        phType == IF checks THEN DerivePhType(phMin, phMax) ELSE NoPhType
        empty == /\ name = Absent /\ phMin = Undefined /\ phMax = Undefined
                 /\ phType = NoPhType /\ ~hasOther
    IN  IF ~soil.exists THEN [outcome |-> "null", row |-> soil]
        ELSE IF checks /\ PhMinGreater(phMinDb, phMaxDb, phMin, phMax)
             THEN [outcome |-> "throw", row |-> soil]
        ELSE IF checks /\ PhMaxLesser(phMinDb, phMaxDb, phMin, phMax)
             THEN [outcome |-> "throw", row |-> soil]
        ELSE IF empty THEN [outcome |-> "null", row |-> soil]
        ELSE IF name # Absent /\ SoilNameTaken(name, id) THEN [outcome |-> "throw", row |-> soil]
        ELSE [outcome |-> "updated", row |-> SoilUpdateRow(soil, name, phMin, phMax, phType)]

\* The part of updateSoilDetails between Soil.findByPk and Soil.update, on
\* the row that findByPk returned: null, a thrown bounds error, or the
\* phType added to soilDetails before the update is issued
checkSoilDetails(soil, phMin, phMax) ==
    LET json == SoilToJSON(soil)
        phMaxDb == Prop(json, "ph_max")
        phMinDb == Prop(json, "ph_min")
        checks == PhCheckApplies(phMinDb, phMaxDb, phMin, phMax)
    IN  IF ~soil.exists THEN [outcome |-> "null", phType |-> NoPhType]
        ELSE IF checks /\ ( \/ PhMinGreater(phMinDb, phMaxDb, phMin, phMax)
                            \/ PhMaxLesser(phMinDb, phMaxDb, phMin, phMax) )
             THEN [outcome |-> "throw", phType |-> NoPhType]
        ELSE [outcome |-> "update",
              phType |-> IF checks THEN DerivePhType(phMin, phMax) ELSE NoPhType]

\* extraKey: the body has a key outside the allow-list
UpdateSoil(id, extraKey, hasOther, nameReq, phMinReq, phMaxReq) ==
    LET name == IF TruthyStr(nameReq) THEN nameReq ELSE Absent
        phMin == IfTruthy(phMinReq)
        phMax == IfTruthy(phMaxReq)
        result == updateSoilDetails(id, name, phMin, phMax, hasOther)
        Reply(status, message) ==
            SoilResponse("update", status, message, id, {}, nameReq, phMinReq, phMaxReq)
    IN  /\ IF extraKey
           THEN /\ soilResp' = Reply(400, "No details to update")
                /\ UNCHANGED soils
           ELSE IF result.outcome = "throw"
           THEN /\ soilResp' = Reply(500, "Failed to update soil")
                /\ soils' = [soils EXCEPT ![id] = result.row]
           ELSE IF result.outcome = "null"
           THEN /\ soilResp' = Reply(404, "Soil not found")
                /\ UNCHANGED soils
           ELSE /\ soils' = [soils EXCEPT ![id] = result.row]
                /\ soilResp' = Reply(200, "Update successful")
        /\ UNCHANGED <<extVars, stages, stageResp, listResp, routeResp, pestVars>>

----------------------------------------------------------------------------
(* GET /soils/:soil_id : fetchSoilById, getSoilById;                        *)
(* DELETE /soils/:soil_id : deleteSoilById, getSoilById, removeSoil        *)

\* getSoilById(soilId): the row or null (NoSoil)
getSoilById(id) == SoilFindByPk(id)

\* The slot of a row that Soil.destroy has deleted: the row is gone and its
\* id stays used
SoilRowDestroyed == [NoSoil EXCEPT !.idUsed = TRUE]

\* A destroy that matches no row
removeSoilMissed(id) == soils

\* removeSoil(soilId): Soil.destroy({ where: { id } }) on the table
removeSoil(id) == [soils EXCEPT ![id] = SoilRowDestroyed]

FetchSoilById(id) ==
    LET soil == getSoilById(id)
    IN  /\ soilResp' = IF soil.exists
                       THEN SoilResponse("fetchById", 200, "Soil fetched successfully", id, {},
                                         soil.name, soil.phMin, soil.phMax)
                       ELSE SoilResponse("fetchById", 404, "Soil not found", id, {},
                                         Absent, Undefined, Undefined)
        /\ UNCHANGED <<extVars, soils, stages, stageResp, listResp, routeResp, pestVars>>

DeleteSoilById(id) ==
    /\ IF ~getSoilById(id).exists
       THEN /\ soilResp' = SoilResponse("delete", 404, "Soil not found", id, {},
                                        Absent, Undefined, Undefined)
            /\ UNCHANGED soils
       ELSE /\ soils' = removeSoil(id)
            /\ soilResp' = SoilResponse("delete", 204, "", id, {}, Absent, Undefined, Undefined)
    /\ UNCHANGED <<extVars, stages, stageResp, listResp, routeResp, pestVars>>

----------------------------------------------------------------------------
(* GrowthStage table and model validation (db/models/GrowthStage.js) *)

DAYS_MAX_MIN == 1
DAYS_MIN_MIN == 0

StageRow(minDays, maxDays) == [exists |-> TRUE, minDays |-> minDays, maxDays |-> maxDays]

NoStage == [exists |-> FALSE, minDays |-> Undefined, maxDays |-> Undefined]

\* Model-wide validator: it sees the values of the instance being validated
minLessThanMax(minDays, maxDays) ==
    ~(minDays # Undefined /\ maxDays # Undefined /\ minDays >= maxDays)

\* Attribute validators (validate: { min: n }) and the model-wide validator,
\* run on the values given to GrowthStage.create / GrowthStage.update
GrowthStageValidate(minDays, maxDays) ==
    /\ maxDays # Undefined => maxDays >= DAYS_MAX_MIN
    /\ minDays # Undefined => minDays >= DAYS_MIN_MIN
    /\ minLessThanMax(minDays, maxDays)

StageResponse(op, status, message, id, errors, minReq, maxReq) ==
    [op |-> op, status |-> status, message |-> message, id |-> id,
     errors |-> errors, minReq |-> minReq, maxReq |-> maxReq]

NoStageResp == StageResponse("none", 0, "", 0, {}, Undefined, Undefined)

----------------------------------------------------------------------------
(* express-validator chains of updateGrowthStageValidator (also appended to *)
(* createGrowthStageValidator)                                             *)

\* body("max_days"): optional, isInt({ min: 1 }) + bail, custom against the
\* raw min_days
MaxDaysChainFails(minRaw, maxRaw) ==
    /\ maxRaw # Undefined
    /\ \/ maxRaw < DAYS_MAX_MIN
       \/ Truthy(minRaw) /\ maxRaw <= minRaw

\* body("min_days"): optional, isInt({ min: 0 }) + bail, custom against
\* req.body.max_days, by now an int, or the trimmed (truthy) string when the
\* max_days chain bailed
MinDaysChainFails(minRaw, maxRaw) ==
    /\ minRaw # Undefined
    /\ \/ minRaw < DAYS_MIN_MIN
       \/ /\ maxRaw # Undefined
          /\ IF maxRaw >= DAYS_MAX_MIN
             THEN minRaw >= maxRaw
             ELSE ~StrLt(DecStr(minRaw), DecStr(maxRaw))

updateGrowthStageValidator(minRaw, maxRaw) ==
    (IF MaxDaysChainFails(minRaw, maxRaw) THEN {"max_days"} ELSE {})
    \cup (IF MinDaysChainFails(minRaw, maxRaw) THEN {"min_days"} ELSE {})

----------------------------------------------------------------------------
(* POST /growth-stages : createGrowthStage, saveGrowthStage *)

FreeStageIds == {i \in StageIds : ~stages[i].exists}

CreateGrowthStage(minRaw, maxRaw) ==
    LET errors == updateGrowthStageValidator(minRaw, maxRaw)
        Reply(status, message, id, errs) ==
            StageResponse("create", status, message, id, errs, minRaw, maxRaw)
    IN  /\ errors = {} => FreeStageIds # {}
        /\ IF errors # {}
           THEN /\ stageResp' = Reply(400, "Validation error", 0, errors)
                /\ UNCHANGED stages
           ELSE IF ~GrowthStageValidate(minRaw, maxRaw)
           THEN /\ stageResp' = Reply(500, "Failed to save growth stage", 0, {})
                /\ UNCHANGED stages
           ELSE LET id == CHOOSE i \in FreeStageIds : \A j \in FreeStageIds : i <= j
                IN  /\ stages' = [stages EXCEPT ![id] = StageRow(minRaw, maxRaw)]
                    /\ stageResp' = Reply(201, "GrowthStage created successfully", id, {})
        /\ UNCHANGED <<extVars, soils, soilResp, listResp, routeResp, pestVars>>

StageSent ==
    /\ stageResp # NoStageResp
    /\ stageResp' = NoStageResp
    /\ UNCHANGED <<extVars, soils, soilResp, stages, listResp, routeResp, pestVars>>

----------------------------------------------------------------------------
(* PATCH /growth-stages/:growth_stage_id : updateGrowthStageDetailsById,    *)
(* updateGrowthStageDetails                                                *)

\* GrowthStage.update(values, { where: { id } }): the values alone are
\* validated, an empty set of values updates nothing, and otherwise the
\* matching row gets the given attributes
updateGrowthStageDetails(id, minDays, maxDays, hasDescription) ==
    LET row == IF id \in StageIds /\ stages[id].exists THEN stages[id] ELSE NoStage
        empty == minDays = Undefined /\ maxDays = Undefined /\ ~hasDescription
    IN  IF ~GrowthStageValidate(minDays, maxDays) THEN [outcome |-> "throw", row |-> row]
        ELSE IF empty \/ ~row.exists THEN [outcome |-> "null", row |-> row]
        ELSE [outcome |-> "updated",
              row |-> StageRow(IF minDays # Undefined THEN minDays ELSE row.minDays,
                               IF maxDays # Undefined THEN maxDays ELSE row.maxDays)]

\* hasDescription: the body has a non-empty description
UpdateGrowthStage(id, hasDescription, minReq, maxReq) ==
    LET errors == updateGrowthStageValidator(minReq, maxReq)
        noAllowedKey == ~hasDescription /\ minReq = Undefined /\ maxReq = Undefined
        result == updateGrowthStageDetails(id, IfTruthy(minReq), IfTruthy(maxReq), hasDescription)
        Reply(status, message, errs) ==
            StageResponse("update", status, message, id, errs, minReq, maxReq)
    IN  /\ IF errors # {}
           THEN /\ stageResp' = Reply(400, "Validation error", errors)
                /\ UNCHANGED stages
           ELSE IF noAllowedKey
           THEN /\ stageResp' = Reply(400, "No details to update", {})
                /\ UNCHANGED stages
           ELSE IF result.outcome = "throw"
           THEN /\ stageResp' = Reply(500, "Failed to update growth stage", {})
                /\ UNCHANGED stages
           ELSE IF result.outcome = "null"
           THEN /\ stageResp' = Reply(404, "Growth stage not found", {})
                /\ UNCHANGED stages
           ELSE /\ stages' = [stages EXCEPT ![id] = result.row]
                /\ stageResp' = Reply(200, "Updated successfully", {})
        /\ UNCHANGED <<extVars, soils, soilResp, listResp, routeResp, pestVars>>

----------------------------------------------------------------------------
(* List endpoints: GET /plants and GET /soils *)

\* Bounds of the list requests the model issues
MaxReqLimit == 101
MaxReqPage == 11
MaxItems == 101

PLANT_DEFAULT_LIMIT == 10
PLANT_MAX_LIMIT == 100
PLANT_DEFAULT_PAGE == 1
SOIL_DEFAULT_LIMIT == 10
SOIL_MAX_LIMIT == 50
SOIL_DEFAULT_PAGE == 1
\* the literals the services compare the limit with
PLANT_SERVICE_MAX == 100
SOIL_SERVICE_MAX == 50

Min(a, b) == IF a < b THEN a ELSE b
Max(a, b) == IF a > b THEN a ELSE b

\* parseInt(raw, 10) || dflt : an absent raw value parses to NaN, and NaN
\* and 0 are falsy
ParseIntOr(raw, dflt) == IF Truthy(raw) THEN raw ELSE dflt

\* Math.min(MAX_LIMIT, Math.max(DEFAULT_LIMIT, parseInt(limit, 10) || DEFAULT_LIMIT))
NormalizeLimit(raw, dflt, maxLimit) == Min(maxLimit, Max(dflt, ParseIntOr(raw, dflt)))

\* Math.max(DEFAULT_PAGE, parseInt(page, 10) || DEFAULT_PAGE)
NormalizePage(raw, dflt) == Max(dflt, ParseIntOr(raw, dflt))

\* Math.floor in place of Math.ceil
FloorDiv(count, pageSize) == count \div pageSize

\* Math.ceil(count / pageSize) for count >= 0, pageSize >= 1
CeilDiv(count, pageSize) == (count + pageSize - 1) \div pageSize

\* rows of findAndCountAll({ limit, offset, ... }) over `count` matching
\* records, as their positions in the sort order
FindRows(count, limit, offset) == {i \in 1..count : i > offset /\ i <= offset + limit}

\* `if (hasExceededPage)` in place of `if (count && hasExceededPage)`
ExceededKeyAddedAnyCount(count, hasExceededPage) == hasExceededPage

\* `if (count && hasExceededPage)`: the key is added only then
ExceededKeyAdded(count, hasExceededPage) == count # 0 /\ hasExceededPage

\* { ...paginationMetadata, key: true } when cond holds
WithKey(meta, cond, key) == IF cond THEN [k \in DOMAIN meta \cup {key} |-> IF k = key THEN TRUE ELSE meta[k]] ELSE meta

\* plant-service getAllPlants (with filters)
getAllPlants(limit, page, count) ==
    LET offset == (page - 1) * limit
        pageSize == limit
        totalPages == CeilDiv(count, pageSize)
        hasPreviousPage == page > 1
        hasNextPage == page < totalPages
        base == [currentPage |-> page, hasNextPage |-> hasNextPage,
                 hasPreviousPage |-> hasPreviousPage, pageSize |-> pageSize,
                 totalItems |-> count, totalPages |-> totalPages]
        hasExceededPage == page > totalPages
        maxLimitApplied == limit = PLANT_SERVICE_MAX
    IN  [data |-> FindRows(count, limit, offset),
         pagination |-> WithKey(WithKey(base, ExceededKeyAdded(count, hasExceededPage), "hasExceededPage"),
                                maxLimitApplied, "maxLimitApplied")]

\* plant-service getAllPlants, the revision without filters
getAllPlantsRev1(limit, page, count) ==
    LET offset == (page - 1) * limit
        pageSize == limit
        totalPages == CeilDiv(count, pageSize)
        hasPreviousPage == page > 1
        hasNextPage == page < totalPages
        base == [currentPage |-> page, hasNextPage |-> hasNextPage,
                 hasPreviousPage |-> hasPreviousPage, pageSize |-> pageSize,
                 totalItems |-> count, totalPages |-> totalPages]
        hasExceededPage == page > totalPages
        maxLimitApplied == limit = PLANT_SERVICE_MAX
    IN  [data |-> FindRows(count, limit, offset),
         pagination |-> WithKey(WithKey(base, hasExceededPage, "hasExceededPage"),
                                ~hasExceededPage /\ maxLimitApplied, "maxLimitApplied")]

\* soil-service getAllSoils
getAllSoils(limit, page, count) ==
    LET offset == (page - 1) * limit
        pageSize == limit
        totalPages == CeilDiv(count, pageSize)
        hasPreviousPage == page < totalPages /\ page > 1
        hasNextPage == page < totalPages
        base == [currentPage |-> page, hasPreviousPage |-> hasPreviousPage,
                 hasNextPage |-> hasNextPage, pageSize |-> pageSize,
                 totalItems |-> count, totalPages |-> totalPages]
        hasExceededPage == page > totalPages
        maxLimitApplied == limit = SOIL_SERVICE_MAX
    IN  [data |-> FindRows(count, limit, offset),
         pagination |-> WithKey(WithKey(base, ExceededKeyAdded(count, hasExceededPage), "hasExceededPage"),
                                maxLimitApplied, "maxLimitApplied")]

\* What a list handler answered: the handler, the raw request, the store's
\* count of matching records, and the service result it sends with status 200
ListResponse(handler, limitRaw, pageRaw, count, maxLimit, result) ==
    [handler |-> handler, status |-> 200,
     limitRaw |-> limitRaw, pageRaw |-> pageRaw,
     count |-> count, maxLimit |-> maxLimit,
     data |-> result.data, pagination |-> result.pagination]

NoList == [handler |-> "none"]

\* plant-controller fetchAllPlants -> getAllPlants
FetchAllPlants(limitRaw, pageRaw, count) ==
    LET limit == NormalizeLimit(limitRaw, PLANT_DEFAULT_LIMIT, PLANT_MAX_LIMIT)
        page == NormalizePage(pageRaw, PLANT_DEFAULT_PAGE)
    IN  /\ listResp' = ListResponse("fetchAllPlants", limitRaw, pageRaw,
                                    count, PLANT_MAX_LIMIT, getAllPlants(limit, page, count))
        /\ UNCHANGED <<extVars, soils, soilResp, stages, stageResp, routeResp, pestVars>>

\* plant-controller fetchAllPlants of the revision without filters
FetchAllPlantsRev1(limitRaw, pageRaw, count) ==
    LET limit == NormalizeLimit(limitRaw, PLANT_DEFAULT_LIMIT, PLANT_MAX_LIMIT)
        page == NormalizePage(pageRaw, PLANT_DEFAULT_PAGE)
    IN  /\ listResp' = ListResponse("fetchAllPlantsRev1", limitRaw, pageRaw,
                                    count, PLANT_MAX_LIMIT, getAllPlantsRev1(limit, page, count))
        /\ UNCHANGED <<extVars, soils, soilResp, stages, stageResp, routeResp, pestVars>>

\* soil-controller fetchAllSoils -> getAllSoils
FetchAllSoils(limitRaw, pageRaw, count) ==
    LET limit == NormalizeLimit(limitRaw, SOIL_DEFAULT_LIMIT, SOIL_MAX_LIMIT)
        page == NormalizePage(pageRaw, SOIL_DEFAULT_PAGE)
    IN  /\ listResp' = ListResponse("fetchAllSoils", limitRaw, pageRaw,
                                    count, SOIL_MAX_LIMIT, getAllSoils(limit, page, count))
        /\ UNCHANGED <<extVars, soils, soilResp, stages, stageResp, routeResp, pestVars>>

\* The response has been written to the client; the next list request can
\* be served
ListSent ==
    /\ listResp # NoList
    /\ listResp' = NoList
    /\ UNCHANGED <<extVars, soils, soilResp, stages, stageResp, routeResp, pestVars>>

----------------------------------------------------------------------------
(* List routes: GET /plants = getPlantsValidator, errorHandler,             *)
(* fetchAllPlants; GET /soils = getSoilsValidator, validationErrorHandler,  *)
(* fetchAllSoils.  Query values are strings: a numeric string is its       *)
(* number, a non-numeric one is NonNumeric, an absent key is Undefined (for *)
(* page and limit) or Absent (for the string-valued keys).                 *)

NonNumeric == 0 - 2

\* The closed sets of the filters the model issues
PLANT_PURPOSE == {"flower", "fodder", "fruit", "herb", "medicine", "spice", "vegetable"}
SOIL_DRAINAGE == {"moderately-drained", "poorly-drained", "well-drained"}
SOIL_TEXTURE == {"chalky", "clayey", "loamy", "peaty", "sandy", "siltly"}

PLANT_SORT_PARAMS == {"name", "createdAt"}
PLANT_DEFAULT_SORT_BY == "createdAt"
SOIL_SORT_PARAMS == {"name", "created_at"}
SOIL_DEFAULT_SORT_BY == "created_at"
SORT_ORDERS == {"asc", "desc"}
DEFAULT_SORT_ORDER == "asc"

\* Query values the model issues
RouteNumberInputs == {Undefined, NonNumeric, 0, 1, 2, 5}
SortByInputs == {Absent, "name", "createdAt", "created_at", "height"}
SortOrderInputs == {Absent, "asc", "DESC", "sideways"}
PurposeInputs == {Absent, "herb", "not_a_purpose"}
DrainageInputs == {Absent, "well-drained", "swampy"}
TextureInputs == {Absent, "loamy", "velvety"}
RouteCounts == {0, 25}

\* String.prototype.toLowerCase on the strings the model issues
ToLowerCase(str) ==
    CASE str = "DESC" -> "desc"
      [] str = "Mite" -> "mite"
      [] str = " Mite " -> " mite "
      [] str = "Fungi" -> "fungi"
      [] str = "Seedling" -> "seedling"
      [] str = " Seedling " -> " seedling "
      [] str = " Fungi " -> " fungi "
      [] OTHER -> str

\* String.prototype.trim on the strings the model issues
Trim(str) ==
    CASE str = " Mite " -> "Mite"
      [] str = " mite " -> "mite"
      [] str = " Fungi " -> "Fungi"
      [] str = " fungi " -> "fungi"
      [] str = " virus " -> "virus"
      [] str = " tomato " -> "tomato"
      [] str = " Seedling " -> "Seedling"
      [] str = " seedling " -> "seedling"
      [] str = "  " -> ""
      [] OTHER -> str

\* isInt({ gt: 0 }) on a query string
IsIntGtZero(v) == v # NonNumeric /\ v > 0

\* query(key).optional().isInt({ gt: 0 }): the chain fails on a present
\* value that is no positive integer
IntChainFails(v) == v # Undefined /\ ~IsIntGtZero(v)

\* query(key).optional().isString().trim().isIn(allowed)
IsInChainFails(v, allowed) == v # Absent /\ v \notin allowed

\* the same chain with .toLowerCase() before isIn
LowerIsInChainFails(v, allowed) == v # Absent /\ ToLowerCase(v) \notin allowed

\* validationResult(req) of getPlantsValidator, as the set of failing paths
getPlantsValidator(q) ==
    {f \in {"page", "limit", "sort_by", "sort_order", "purpose"} :
        \/ f = "page" /\ IntChainFails(q.page)
        \/ f = "limit" /\ IntChainFails(q.limit)
        \/ f = "sort_by" /\ IsInChainFails(q.sort_by, PLANT_SORT_PARAMS)
        \/ f = "sort_order" /\ LowerIsInChainFails(q.sort_order, SORT_ORDERS)
        \/ f = "purpose" /\ LowerIsInChainFails(q.purpose, PLANT_PURPOSE)}

\* validationResult(req) of getSoilsValidator: it has a chain for drainage,
\* nutrient_level, organic_matter_level and water_retention_level, and none
\* for texture and type
getSoilsValidator(q) ==
    {f \in {"page", "limit", "sort_by", "sort_order", "drainage"} :
        \/ f = "page" /\ IntChainFails(q.page)
        \/ f = "limit" /\ IntChainFails(q.limit)
        \/ f = "sort_by" /\ IsInChainFails(q.sort_by, SOIL_SORT_PARAMS)
        \/ f = "sort_order" /\ LowerIsInChainFails(q.sort_order, SORT_ORDERS)
        \/ f = "drainage" /\ LowerIsInChainFails(q.drainage, SOIL_DRAINAGE)}

\* matchedData(req, { locations: ["query"] }) after getPlantsValidator: the
\* sanitized value of every key that has a chain
PlantSanitizedQuery(q) ==
    [page |-> q.page, limit |-> q.limit, sort_by |-> q.sort_by,
     sort_order |-> ToLowerCase(q.sort_order), purpose |-> ToLowerCase(q.purpose)]

\* matchedData after getSoilsValidator: texture has no chain, so it is not
\* in the sanitized query
SoilSanitizedQuery(q) ==
    [page |-> q.page, limit |-> q.limit, sort_by |-> q.sort_by,
     sort_order |-> ToLowerCase(q.sort_order), drainage |-> ToLowerCase(q.drainage),
     texture |-> Absent]

\* `if (!sortBy || !SORT_PARAMS.includes(sortBy)) sortBy = DEFAULT_SORT_BY`
SortByOr(sortBy, allowed, dflt) == IF sortBy = Absent \/ sortBy \notin allowed THEN dflt ELSE sortBy

\* `if (!sortOrder || !["asc","desc"].includes(String(sortOrder).toLowerCase()))`
SortOrderOr(sortOrder) ==
    IF sortOrder = Absent \/ ToLowerCase(sortOrder) \notin SORT_ORDERS
    THEN DEFAULT_SORT_ORDER ELSE sortOrder

\* What a list route answered.  query: the request as sent; queried: the
\* store's findAndCountAll was called; sorting, filters: its order and
\* where arguments (Absent: the key is not in the where clause)
RouteResponse(route, query, status, errors, queried, sorting, filters, pagination) ==
    [route |-> route, query |-> query, status |-> status, errors |-> errors,
     queried |-> queried, sorting |-> sorting, filters |-> filters,
     pagination |-> pagination]

NoRoute == [route |-> "none"]
NoSorting == [sortBy |-> Absent, sortOrder |-> Absent]
NoPagination == [pageSize |-> 0]

\* GET /plants
GetPlants(q, count) ==
    LET errors == getPlantsValidator(q)
        sq == PlantSanitizedQuery(q)
        limit == NormalizeLimit(sq.limit, PLANT_DEFAULT_LIMIT, PLANT_MAX_LIMIT)
        page == NormalizePage(sq.page, PLANT_DEFAULT_PAGE)
        sorting == [sortBy |-> SortByOr(sq.sort_by, PLANT_SORT_PARAMS, PLANT_DEFAULT_SORT_BY),
                    sortOrder |-> SortOrderOr(sq.sort_order)]
        filters == [purpose |-> sq.purpose]
    IN  /\ routeResp' =
              IF errors # {}
              THEN RouteResponse("GET /plants", q, 400, errors, FALSE, NoSorting,
                                 [purpose |-> Absent], NoPagination)
              ELSE RouteResponse("GET /plants", q, 200, {}, TRUE, sorting, filters,
                                 getAllPlants(limit, page, count).pagination)
        /\ UNCHANGED <<extVars, soils, soilResp, stages, stageResp, listResp, pestVars>>

\* GET /soils
GetSoils(q, count) ==
    LET errors == getSoilsValidator(q)
        sq == SoilSanitizedQuery(q)
        limit == NormalizeLimit(sq.limit, SOIL_DEFAULT_LIMIT, SOIL_MAX_LIMIT)
        page == NormalizePage(sq.page, SOIL_DEFAULT_PAGE)
        sorting == [sortBy |-> SortByOr(sq.sort_by, SOIL_SORT_PARAMS, SOIL_DEFAULT_SORT_BY),
                    sortOrder |-> SortOrderOr(sq.sort_order)]
        filters == [drainage |-> sq.drainage, texture |-> sq.texture]
    IN  /\ routeResp' =
              IF errors # {}
              THEN RouteResponse("GET /soils", q, 400, errors, FALSE, NoSorting,
                                 [drainage |-> Absent, texture |-> Absent], NoPagination)
              ELSE RouteResponse("GET /soils", q, 200, {}, TRUE, sorting, filters,
                                 getAllSoils(limit, page, count).pagination)
        /\ UNCHANGED <<extVars, soils, soilResp, stages, stageResp, listResp, pestVars>>

\* The response has been written to the client; the next list request can
\* be served
RouteSent ==
    /\ routeResp # NoRoute
    /\ routeResp' = NoRoute
    /\ UNCHANGED <<extVars, soils, soilResp, stages, stageResp, listResp, pestVars>>

----------------------------------------------------------------------------
(* PestType: model (db/models/PestType.js), service and controller.  Two    *)
(* revisions of model and service are in the repository: "isActive" (an    *)
(* isActive column, removal = update of it) and "paranoid" (Sequelize      *)
(* paranoid: true, removal = destroy, which sets deletedAt).               *)

MaxPestTypes == 2
PestTypeIds == 1..MaxPestTypes

PestTypeRevs == {"isActive", "paranoid"}

PEST_TYPE == {"bird", "insect", "mite", "nematode", "rodent", "slug", "snail"}

\* Request values the model issues
PestTypeNameInputs == {"insect", "mite", "dragon"}
DescriptionInputs == {Absent, "", "chews leaves", "bores stems"}

PestTypeRow(name, description, isActive, deleted) ==
    [exists |-> TRUE, name |-> name, description |-> description,
     isActive |-> isActive, deleted |-> deleted]

NoPestType ==
    [exists |-> FALSE, name |-> Absent, description |-> Absent,
     isActive |-> FALSE, deleted |-> FALSE]

\* The rows a query of the model sees by default: a paranoid model hides
\* the rows whose deletedAt is set
PestTypeInScopeOf(rev, row) ==
    row.exists /\ (rev = "paranoid" => ~row.deleted)

PestTypeInScope(row) == PestTypeInScopeOf(pestTypeRev, row)

\* getAllPestTypes(isIncludeInActive) of revision rev on a table: the ids
\* of the rows returned
getAllPestTypesOf(rev, table, isIncludeInActive) ==
    {i \in PestTypeIds :
        /\ table[i].exists
        /\ IF rev = "isActive"
           THEN isIncludeInActive \/ table[i].isActive
           ELSE isIncludeInActive \/ ~table[i].deleted}

\* getAllPestTypes(isIncludeInActive) of the deployed revision
getAllPestTypes(isIncludeInActive) ==
    getAllPestTypesOf(pestTypeRev, pestTypes, isIncludeInActive)

\* DELETE FROM pest_types in place of the soft delete
PestTypeRowErased(row) == NoPestType

\* The row after removePestType: PestType.update({ isActive: false }) or the
\* paranoid PestType.destroy, which sets deletedAt
PestTypeRowRemovedOf(rev, row) ==
    IF rev = "isActive"
    THEN [row EXCEPT !.isActive = FALSE]
    ELSE [row EXCEPT !.deleted = TRUE]

PestTypeRowRemoved(row) == PestTypeRowRemovedOf(pestTypeRev, row)

\* removePestType(pestTypeId) of revision rev on a table: the count of rows
\* the statement matched.  The update of the isActive revision matches the
\* row of that id whatever its isActive is; the destroy of the paranoid
\* revision matches only a row whose deletedAt is not set
removePestTypeOf(rev, table, id) ==
    IF rev = "isActive"
    THEN IF table[id].exists THEN 1 ELSE 0
    ELSE IF PestTypeInScopeOf(rev, table[id]) THEN 1 ELSE 0

\* removePestType(pestTypeId) of the deployed revision
removePestType(id) == removePestTypeOf(pestTypeRev, pestTypes, id)

\* The details object handed to the service with every key of the body in it
pestTypeDetailsWholeBody(descReq, nameReq) ==
    [description |-> IF TruthyStr(descReq) THEN descReq ELSE Absent, name |-> nameReq]

\* The details object patchUpdatePestTypeById builds from the body: the
\* description when it is truthy, and no other key
pestTypeDetails(descReq, nameReq) ==
    [description |-> IF TruthyStr(descReq) THEN descReq ELSE Absent, name |-> Absent]

\* updatePestTypeDetails(pestTypeId, pestTypeDetails): null when the
\* details are empty or no row in scope matches, or else the row with the
\* attributes of the details written to it
updatePestTypeDetailsOf(rev, table, id, details) ==
    IF (details.description = Absent /\ details.name = Absent) \/ ~PestTypeInScopeOf(rev, table[id])
    THEN [outcome |-> "null", row |-> table[id]]
    ELSE [outcome |-> "updated",
          row |-> [table[id] EXCEPT
                      !.description = IF details.description # Absent
                                      THEN details.description ELSE @,
                      !.name = IF details.name # Absent THEN details.name ELSE @]]

\* updatePestTypeDetails of the deployed revision
updatePestTypeDetails(id, details) ==
    updatePestTypeDetailsOf(pestTypeRev, pestTypes, id, details)

\* What a PestType handler or service call answered.  data: the ids of the
\* rows in the answer; nameReq: the name key of the request body
PestTypeResponse(op, status, id, data, includeInactive, nameReq) ==
    [op |-> op, status |-> status, id |-> id, data |-> data,
     includeInactive |-> includeInactive, nameReq |-> nameReq]

NoPestTypeResp == PestTypeResponse("none", 0, 0, {}, FALSE, Absent)

FreePestTypeIds == {i \in PestTypeIds : ~pestTypes[i].exists}

\* body("name") of createPestTypeValidator: notEmpty, isString, then the
\* sanitisers trim and toLowerCase, whose result replaces req.body.name
PestTypeNameSanitized(nameReq) == ToLowerCase(Trim(nameReq))

\* createPestTypeValidator, as the set of failing fields
createPestTypeValidator(nameReq) ==
    IF PestTypeNameSanitized(nameReq) \notin PEST_TYPE THEN {"name"} ELSE {}

\* A unique index that leaves the removed rows out
PestTypeNameTakenAmongActive(name) ==
    \E i \in PestTypeIds :
        /\ pestTypes[i].exists /\ pestTypes[i].name = name
        /\ pestTypes[i].isActive /\ ~pestTypes[i].deleted

\* The unique index on name: it spans every row of the table, the removed
\* ones included
PestTypeNameTaken(name) ==
    \E i \in PestTypeIds : pestTypes[i].exists /\ pestTypes[i].name = name

\* POST /pest-types : createPestTypeValidator, createPestType, savePestType
CreatePestType(nameReq, descReq) ==
    LET name == PestTypeNameSanitized(nameReq)
        description == IF TruthyStr(descReq) THEN descReq ELSE Absent
        Reply(status, id, data) == PestTypeResponse("create", status, id, data, FALSE, nameReq)
    IN  /\ (createPestTypeValidator(nameReq) = {} /\ ~PestTypeNameTaken(name))
              => FreePestTypeIds # {}
        /\ IF createPestTypeValidator(nameReq) # {}
           THEN /\ pestTypeResp' = Reply(400, 0, {})
                /\ UNCHANGED pestTypes
           ELSE IF PestTypeNameTaken(name)
           THEN /\ pestTypeResp' = Reply(500, 0, {})
                /\ UNCHANGED pestTypes
           ELSE LET id == CHOOSE i \in FreePestTypeIds : \A j \in FreePestTypeIds : i <= j
                IN  /\ pestTypes' = [pestTypes EXCEPT
                                        ![id] = PestTypeRow(name, description, TRUE, FALSE)]
                    /\ pestTypeResp' = Reply(201, id, {id})
        /\ UNCHANGED <<extVars, soils, soilResp, stages, stageResp, listResp, routeResp,
                       pestTypeRev, pests, pestResp>>

\* DELETE /pest-types/:pest_type_id : deletePestTypeById, removePestType
DeletePestTypeById(id) ==
    /\ IF removePestType(id) = 0
       THEN /\ pestTypeResp' = PestTypeResponse("delete", 404, id, {}, FALSE, Absent)
            /\ UNCHANGED pestTypes
       ELSE /\ pestTypes' = [pestTypes EXCEPT ![id] = PestTypeRowRemoved(pestTypes[id])]
            /\ pestTypeResp' = PestTypeResponse("delete", 204, id, {}, FALSE, Absent)
    /\ UNCHANGED <<extVars, soils, soilResp, stages, stageResp, listResp, routeResp,
                   pestTypeRev, pests, pestResp>>

\* The res.status(..).json(..) calls of patchUpdatePestTypeById after
\* service.update has resolved.  The 404 call of the `if (!pestType)`
\* statement is not returned, so the 200 call of the next statement runs as
\* well; a json call made after a response has been sent throws, and the
\* catch block then makes the 500 call.  The client receives the first.
ResCallsAfterUpdate(found) ==
    LET notFoundCall == IF found THEN <<>> ELSE <<404>>
        successCall == notFoundCall \o <<200>>
    IN  IF Len(successCall) > 1 THEN successCall \o <<500>> ELSE successCall

\* PATCH /pest-types/:pest_type_id : patchUpdatePestTypeById,
\* updatePestTypeDetails.  descReq: the body's description (Absent: no such
\* key), nameReq: the body's name, a key outside patchUpdateFields.
PatchUpdatePestTypeById(id, descReq, nameReq) ==
    LET result == updatePestTypeDetails(id, pestTypeDetails(descReq, nameReq))
        Reply(status, data) == PestTypeResponse("patchUpdate", status, id, data, FALSE, nameReq)
    IN  /\ IF descReq = Absent
           THEN /\ pestTypeResp' = Reply(400, {})
                /\ patchCalls' = <<400>>
                /\ UNCHANGED pestTypes
           ELSE IF result.outcome = "null"
           THEN /\ pestTypeResp' = Reply(404, {})
                /\ patchCalls' = ResCallsAfterUpdate(FALSE)
                /\ UNCHANGED pestTypes
           ELSE /\ pestTypes' = [pestTypes EXCEPT ![id] = result.row]
                /\ pestTypeResp' = Reply(200, {id})
                /\ patchCalls' = ResCallsAfterUpdate(TRUE)
        /\ UNCHANGED <<exceptCalls, soils, soilResp, stages, stageResp, listResp, routeResp,
                       pestTypeRev, pests, pestResp>>

\* A call of the service's getAll with the given flag
GetAllPestTypes(isIncludeInActive) ==
    /\ pestTypeResp' = PestTypeResponse("getAllPestTypes", 200, 0,
                                        getAllPestTypes(isIncludeInActive), isIncludeInActive, Absent)
    /\ UNCHANGED <<extVars, soils, soilResp, stages, stageResp, listResp, routeResp,
                   pestTypes, pestTypeRev, pests, pestResp>>

\* GET /pest-types : fetchAllPestTypes, which calls service.getAll(true);
\* the request has no flag
FetchAllPestTypes ==
    /\ pestTypeResp' = PestTypeResponse("fetchAllPestTypes", 200, 0, getAllPestTypes(TRUE), FALSE, Absent)
    /\ UNCHANGED <<extVars, soils, soilResp, stages, stageResp, listResp, routeResp,
                   pestTypes, pestTypeRev, pests, pestResp>>

PestTypeSent ==
    /\ pestTypeResp # NoPestTypeResp
    /\ pestTypeResp' = NoPestTypeResp
    /\ patchCalls' = <<>>
    /\ UNCHANGED <<exceptCalls, soils, soilResp, stages, stageResp, listResp, routeResp,
                   pestTypes, pestTypeRev, pests, pestResp>>

----------------------------------------------------------------------------
(* Pest: model (db/models/Pest.js, paranoid), pest-service, pest-controller *)

MaxPests == 2
PestIds == 1..MaxPests

PestRow(description, deleted) ==
    [exists |-> TRUE, description |-> description, deleted |-> deleted]

NoPest == [exists |-> FALSE, description |-> Absent, deleted |-> FALSE]

\* getPestById(pestId): Pest.findByPk on the paranoid model; NoPest is null
getPestById(id) == IF pests[id].exists /\ ~pests[id].deleted THEN pests[id] ELSE NoPest

\* updatePestDetails(pestId, pestDetails): null when the details are empty
\* or no row in scope matches
updatePestDetails(id, description) ==
    IF description = Absent \/ ~getPestById(id).exists
    THEN NoPest
    ELSE [pests[id] EXCEPT !.description = description]

\* What a Pest handler answered; data: the row in the answer, NoPest for null
PestResponse(op, status, id, data) == [op |-> op, status |-> status, id |-> id, data |-> data]

NoPestResp == PestResponse("none", 0, 0, NoPest)

FreePestIds == {i \in PestIds : ~pests[i].exists}

\* POST /pests : createPest, savePest (with valid required fields)
CreatePest(descReq) ==
    /\ FreePestIds # {}
    /\ LET id == CHOOSE i \in FreePestIds : \A j \in FreePestIds : i <= j
           row == PestRow(IF TruthyStr(descReq) THEN descReq ELSE Absent, FALSE)
       IN  /\ pests' = [pests EXCEPT ![id] = row]
           /\ pestResp' = PestResponse("create", 201, id, row)
    /\ UNCHANGED <<extVars, soils, soilResp, stages, stageResp, listResp, routeResp,
                   pestTypes, pestTypeRev, pestTypeResp>>

\* GET /pests/:pest_id : fetchPestById answers 200 with whatever getPestById
\* returned
FetchPestById(id) ==
    /\ pestResp' = PestResponse("fetchById", 200, id, getPestById(id))
    /\ UNCHANGED <<extVars, soils, soilResp, stages, stageResp, listResp, routeResp,
                   pestTypes, pestTypeRev, pestTypeResp, pests>>

\* PATCH /pests/:pest_id : updatePestDetailsById answers 200 with whatever
\* updatePestDetails returned
UpdatePestDetailsById(id, descReq) ==
    LET updated == updatePestDetails(id, IF TruthyStr(descReq) THEN descReq ELSE Absent)
    IN  /\ IF descReq = Absent
           THEN /\ pestResp' = PestResponse("update", 400, id, NoPest)
                /\ UNCHANGED pests
           ELSE /\ pests' = IF updated.exists THEN [pests EXCEPT ![id] = updated] ELSE pests
                /\ pestResp' = PestResponse("update", 200, id, updated)
        /\ UNCHANGED <<extVars, soils, soilResp, stages, stageResp, listResp, routeResp,
                       pestTypes, pestTypeRev, pestTypeResp>>

\* DELETE /pests/:pest_id : deletePestById checks getPestById, then
\* removePest (Pest.destroy on the paranoid model sets deletedAt)
DeletePestById(id) ==
    /\ IF ~getPestById(id).exists
       THEN /\ pestResp' = PestResponse("delete", 404, id, NoPest)
            /\ UNCHANGED pests
       ELSE /\ pests' = [pests EXCEPT ![id].deleted = TRUE]
            /\ pestResp' = PestResponse("delete", 204, id, NoPest)
    /\ UNCHANGED <<extVars, soils, soilResp, stages, stageResp, listResp, routeResp,
                   pestTypes, pestTypeRev, pestTypeResp>>

PestSent ==
    /\ pestResp # NoPestResp
    /\ pestResp' = NoPestResp
    /\ UNCHANGED <<extVars, soils, soilResp, stages, stageResp, listResp, routeResp,
                   pestTypes, pestTypeRev, pestTypeResp, pests>>

\* The pest catalogue before any request, with the given PestType revision
InitPest(rev) ==
    /\ pestTypes = [i \in PestTypeIds |-> NoPestType]
    /\ pestTypeRev = rev
    /\ pestTypeResp = NoPestTypeResp
    /\ pests = [i \in PestIds |-> NoPest]
    /\ pestResp = NoPestResp

----------------------------------------------------------------------------
(* PathogenType: model (db/models/PathogenType.js, paranoid, name unique), *)
(* pathogen-type-middleware, pathogen-type-service and controller          *)

MaxPathogenTypes == 2
PathogenTypeIds == 1..MaxPathogenTypes

PATHOGEN_TYPE ==
    {"bacteria", "fungi", "insect", "nematode", "oomycete", "phytoplasma", "protozoa", "virus"}

\* Names the model issues in request bodies
PathogenTypeNameInputs == {Absent, "  ", "fungi", " virus ", "Fungi", " Fungi ", "mold"}

PathogenTypeRow(name, deleted) == [exists |-> TRUE, name |-> name, deleted |-> deleted]

NoPathogenType == [exists |-> FALSE, name |-> Absent, deleted |-> FALSE]

\* body("name").trim(): the sanitised value replaces the one in req.body
\* (an absent name becomes the empty string)
PathogenNameSanitized(nameRaw) == IF nameRaw = Absent THEN "" ELSE Trim(nameRaw)

\* createPathogenTypeValidator, as the set of failing fields: name is
\* trimmed, must not be empty and must be one of PATHOGEN_TYPE as written
createPathogenTypeValidator(nameRaw) ==
    IF PathogenNameSanitized(nameRaw) \notin PATHOGEN_TYPE THEN {"name"} ELSE {}

\* getPathogenTypeById: findByPk of the paranoid model; NoPathogenType is null
getPathogenTypeById(id) ==
    IF pathogenTypes[id].exists /\ ~pathogenTypes[id].deleted
    THEN pathogenTypes[id] ELSE NoPathogenType

\* removePathogenType: the count of rows PathogenType.destroy marked deleted
removePathogenType(id) == IF getPathogenTypeById(id).exists THEN 1 ELSE 0

\* The unique index on name spans the rows marked deleted
PathogenTypeNameTaken(name) ==
    \E i \in PathogenTypeIds : pathogenTypes[i].exists /\ pathogenTypes[i].name = name

\* What a PathogenType handler answered; nameReq: the name of the request
\* body as sent, name: the name in the answer's data
PathogenTypeResponse(op, status, id, nameReq, name, errors) ==
    [op |-> op, status |-> status, id |-> id, nameReq |-> nameReq, name |-> name,
     errors |-> errors]

NoPathogenTypeResp == PathogenTypeResponse("none", 0, 0, Absent, Absent, {})

FreePathogenTypeIds == {i \in PathogenTypeIds : ~pathogenTypes[i].exists}

\* POST /pathogen-types : createPathogenTypeValidator, validationErrorHandler,
\* createPathogenType, savePathogenType
CreatePathogenType(nameRaw) ==
    LET errors == createPathogenTypeValidator(nameRaw)
        name == PathogenNameSanitized(nameRaw)
        Reply(status, id, stored, errs) ==
            PathogenTypeResponse("create", status, id, nameRaw, stored, errs)
    IN  /\ (errors = {} /\ ~PathogenTypeNameTaken(name)) => FreePathogenTypeIds # {}
        /\ IF errors # {}
           THEN /\ pathogenTypeResp' = Reply(400, 0, Absent, errors)
                /\ UNCHANGED pathogenTypes
           ELSE IF PathogenTypeNameTaken(name)
           THEN /\ pathogenTypeResp' = Reply(500, 0, Absent, {})
                /\ UNCHANGED pathogenTypes
           ELSE LET id == CHOOSE i \in FreePathogenTypeIds :
                              \A j \in FreePathogenTypeIds : i <= j
                IN  /\ pathogenTypes' = [pathogenTypes EXCEPT
                                            ![id] = PathogenTypeRow(name, FALSE)]
                    /\ pathogenTypeResp' = Reply(201, id, name, {})
        /\ UNCHANGED exceptPathogen

\* GET /pathogen-types/:pathogen_type_id : fetchPathogenTypeById
FetchPathogenTypeById(id) ==
    LET row == getPathogenTypeById(id)
    IN  /\ pathogenTypeResp' =
              PathogenTypeResponse("fetchById", IF row.exists THEN 200 ELSE 404, id,
                                   Absent, row.name, {})
        /\ UNCHANGED <<exceptPathogen, pathogenTypes>>

\* DELETE /pathogen-types/:pathogen_type_id : deletePathogenType
DeletePathogenType(id) ==
    /\ IF removePathogenType(id) = 0
       THEN /\ pathogenTypeResp' = PathogenTypeResponse("delete", 404, id, Absent, Absent, {})
            /\ UNCHANGED pathogenTypes
       ELSE /\ pathogenTypes' = [pathogenTypes EXCEPT ![id].deleted = TRUE]
            /\ pathogenTypeResp' = PathogenTypeResponse("delete", 204, id, Absent, Absent, {})
    /\ UNCHANGED exceptPathogen

PathogenTypeSent ==
    /\ pathogenTypeResp # NoPathogenTypeResp
    /\ pathogenTypeResp' = NoPathogenTypeResp
    /\ UNCHANGED <<exceptPathogen, pathogenTypes>>

\* The pathogen-type catalogue before any request
InitPathogenType ==
    /\ pathogenTypes = [i \in PathogenTypeIds |-> NoPathogenType]
    /\ pathogenTypeResp = NoPathogenTypeResp

----------------------------------------------------------------------------
(* validateNonEmptyStringArray (plant-middleware): the chain of a           *)
(* list-valued body field.  A list is a sequence of items; an item is a    *)
(* string, or NotAString for an item of any other type.                    *)

MaxArrayLen == 3

NotAString == "<number>"

\* Items the model puts in a list
ArrayItemInputs == {"", "  ", "tomato", " tomato ", "basil", NotAString}

\* Lists the model issues
ArrayInputs == UNION {[1..n -> ArrayItemInputs] : n \in 0..MaxArrayLen}

\* arr.filter(item => typeof item === "string" && item.trim() !== "")
RECURSIVE FilterNonBlankStrings(_)
FilterNonBlankStrings(arr) ==
    IF arr = <<>> THEN <<>>
    ELSE IF Head(arr) # NotAString /\ Trim(Head(arr)) # ""
         THEN <<Head(arr)>> \o FilterNonBlankStrings(Tail(arr))
         ELSE FilterNonBlankStrings(Tail(arr))

\* arr.map(item => item.trim())
MapTrim(arr) == [i \in 1..Len(arr) |-> Trim(arr[i])]

\* [...new Set(arr)]: a Set keeps the first occurrence of a value, in
\* insertion order
RECURSIVE SetSpread(_)
SetSpread(arr) ==
    IF arr = <<>> THEN <<>>
    ELSE LET front == SetSpread(SubSeq(arr, 1, Len(arr) - 1))
             last == arr[Len(arr)]
         IN  IF \E i \in 1..Len(front) : front[i] = last THEN front
             ELSE Append(front, last)

\* A sanitiser that removes the repeated items before trimming them
SanitizeStringArrayDedupFirst(arr) == MapTrim(FilterNonBlankStrings(SetSpread(arr)))

\* The customSanitizer of the chain
SanitizeStringArray(arr) == SetSpread(MapTrim(FilterNonBlankStrings(arr)))

\* The chain on a body field: optional() skips an absent field;
\* isArray({ min: 1 }) fails on an empty list and bails; the sanitised list
\* replaces the field; custom fails when the sanitised list is empty
validateNonEmptyStringArray(supplied, arr) ==
    IF ~supplied THEN [ok |-> TRUE, value |-> arr]
    ELSE IF Len(arr) < 1 THEN [ok |-> FALSE, value |-> arr]
    ELSE [ok |-> Len(SanitizeStringArray(arr)) > 0, value |-> SanitizeStringArray(arr)]

ArrayResponse(op, supplied, input, result) ==
    [op |-> op, supplied |-> supplied, input |-> input, ok |-> result.ok,
     value |-> result.value]

NoArrayResp == ArrayResponse("none", FALSE, <<>>, [ok |-> TRUE, value |-> <<>>])

\* A request whose body has the list-valued field set to arr passes through
\* the chain
ValidateStringArray(arr) ==
    /\ arrayResp' = ArrayResponse("validate", TRUE, arr, validateNonEmptyStringArray(TRUE, arr))
    /\ UNCHANGED exceptArray

\* A request whose body does not have the field
ValidateAbsentArray ==
    /\ arrayResp' = ArrayResponse("validate", FALSE, <<>>,
                                  validateNonEmptyStringArray(FALSE, <<>>))
    /\ UNCHANGED exceptArray

ArraySent ==
    /\ arrayResp # NoArrayResp
    /\ arrayResp' = NoArrayResp
    /\ UNCHANGED exceptArray

----------------------------------------------------------------------------
(* Plant write path: the growth_stages field through createPlantValidator,  *)
(* createPlant, updatePlantDetailsById, the plant service and the model's  *)
(* isValidGrowthStages (db/models/Plant.js).  The required fields of a     *)
(* create are taken to be valid.                                           *)

MaxPlants == 2
MaxStageListLen == 2
PlantIds == 1..MaxPlants

PLANT_GROWTH_STAGE ==
    {"budding", "flowering", "fruiting", "germination", "harvesting", "seedling", "vegetative"}

\* Items and lists of growth_stages the model issues
StageItemInputs == {"seedling", " Seedling ", "flowering", "sprouting"}
StageListInputs == UNION {[1..n -> StageItemInputs] : n \in 0..MaxStageListLen}

PlantRow(growthStages) == [exists |-> TRUE, growthStages |-> growthStages]

NoPlant == [exists |-> FALSE, growthStages |-> <<>>]

\* stage.trim().toLowerCase(), computed for the comparison only
NormalizedStage(stage) == ToLowerCase(Trim(stage))

\* body("growth_stages") of createPlantValidator: optional, isArray({ min: 1 })
\* with bail, then custom: every stage is in PLANT_GROWTH_STAGE once
\* trimmed and lower-cased
GrowthStagesChainFails(supplied, arr) ==
    /\ supplied
    /\ \/ Len(arr) < 1
       \/ \E i \in 1..Len(arr) : NormalizedStage(arr[i]) \notin PLANT_GROWTH_STAGE

\* The customSanitizer of the chain: [...new Set(arr)] on the list as sent
GrowthStagesSanitized(arr) == SetSpread(arr)

\* The model validator of growthStages, run by Plant.create and Plant.update
\* on a given value: no stage is outside PLANT_GROWTH_STAGE once trimmed and
\* lower-cased
isValidGrowthStages(arr) ==
    \A i \in 1..Len(arr) : NormalizedStage(arr[i]) \in PLANT_GROWTH_STAGE

\* What a Plant write handler answered, with the growth_stages it was sent
PlantResponse(op, status, id, supplied, growthStagesReq) ==
    [op |-> op, status |-> status, id |-> id, supplied |-> supplied,
     growthStagesReq |-> growthStagesReq]

NoPlantResp == PlantResponse("none", 0, 0, FALSE, <<>>)

FreePlantIds == {i \in PlantIds : ~plants[i].exists}

\* POST /plants : createPlantValidator, errorHandler, createPlant, savePlant.
\* An absent growth_stages is stored as the column default, the empty list.
CreatePlant(supplied, arr) ==
    LET Reply(status, id) == PlantResponse("create", status, id, supplied, arr)
        growthStages == IF supplied THEN GrowthStagesSanitized(arr) ELSE <<>>
    IN  /\ FreePlantIds # {}
        /\ IF GrowthStagesChainFails(supplied, arr)
           THEN /\ plantResp' = Reply(400, 0)
                /\ UNCHANGED plants
           ELSE IF ~isValidGrowthStages(growthStages)
           THEN /\ plantResp' = Reply(500, 0)
                /\ UNCHANGED plants
           ELSE LET id == CHOOSE i \in FreePlantIds : \A j \in FreePlantIds : i <= j
                IN  /\ plants' = [plants EXCEPT ![id] = PlantRow(growthStages)]
                    /\ plantResp' = Reply(201, id)
        /\ UNCHANGED exceptPlant

\* updatePlantDetails(plantId, plantDetails): Plant.update validates the
\* given values, then writes them to the matching row; null when there is
\* nothing to write or no row matches
updatePlantDetails(id, supplied, arr) ==
    IF supplied /\ ~isValidGrowthStages(arr) THEN [outcome |-> "throw", row |-> plants[id]]
    ELSE IF ~supplied \/ ~plants[id].exists THEN [outcome |-> "null", row |-> plants[id]]
    ELSE [outcome |-> "updated", row |-> PlantRow(arr)]

\* PATCH /plants/:plantId : patchUpdatePlantValidator (which has no chain for
\* growth_stages), errorHandler, updatePlantDetailsById, updatePlantDetails.
\* The body has growth_stages (supplied) or another key of the allow-list
\* with a falsy value.
UpdatePlantDetailsById(id, supplied, arr) ==
    LET result == updatePlantDetails(id, supplied, arr)
        Reply(status) == PlantResponse("update", status, id, supplied, arr)
    IN  /\ IF result.outcome = "throw"
           THEN /\ plantResp' = Reply(500)
                /\ UNCHANGED plants
           ELSE IF result.outcome = "null"
           THEN /\ plantResp' = Reply(404)
                /\ UNCHANGED plants
           ELSE /\ plants' = [plants EXCEPT ![id] = result.row]
                /\ plantResp' = Reply(200)
        /\ UNCHANGED exceptPlant

PlantSent ==
    /\ plantResp # NoPlantResp
    /\ plantResp' = NoPlantResp
    /\ UNCHANGED <<exceptPlant, plants>>

\* The plants table before any request
InitPlant ==
    /\ plants = [i \in PlantIds |-> NoPlant]
    /\ plantResp = NoPlantResp

----------------------------------------------------------------------------
(* Soil requests in flight.  Every `await` of a handler is a point where    *)
(* another request can run: updateSoilDetails awaits Soil.findByPk and then *)
(* Soil.update; deleteSoilById awaits getSoilById and then removeSoil.  No  *)
(* transaction and no version column joins the two statements.             *)

\* The request slots: two requests can be in flight at once
SoilRequests == {"r1", "r2"}

\* The bodies of the partial updates in flight: ph_min only, ph_max only,
\* both in order and both out of order
SoilRaceBodies ==
    { [ph_min |-> 8, ph_max |-> Undefined], [ph_min |-> Undefined, ph_max |-> 6],
      [ph_min |-> 6, ph_max |-> 8], [ph_min |-> 8, ph_max |-> 6] }

\* A request in flight: its position (pc), what it asked for, the row its
\* read returned (snapshot), the phType its check derived and its response
SoilReq(pc, op, id, phMin, phMax, phType, snapshot, status) ==
    [pc |-> pc, op |-> op, id |-> id, phMin |-> phMin, phMax |-> phMax,
     phType |-> phType, snapshot |-> snapshot, status |-> status]

NoSoilReq == SoilReq("idle", "none", 0, Undefined, Undefined, NoPhType, NoSoil, 0)

\* PATCH /soils/:soil_id arrives: updateSoilDetailsById builds soilDetails
\* and calls updateSoilDetails
BeginUpdateSoil(r, id, phMinReq, phMaxReq) ==
    /\ soilReqs[r].pc = "idle"
    /\ soilReqs' = [soilReqs EXCEPT ![r] =
            SoilReq("read", "update", id, IfTruthy(phMinReq), IfTruthy(phMaxReq),
                    NoPhType, NoSoil, 0)]
    /\ UNCHANGED <<soils, exceptSoilReqs>>

\* Soil.findByPk resolves and the code up to `await Soil.update` runs on the
\* row it returned
ReadSoilForUpdate(r) ==
    LET req == soilReqs[r]
        soil == SoilFindByPk(req.id)
        checked == checkSoilDetails(soil, req.phMin, req.phMax)
    IN  /\ req.pc = "read"
        /\ req.op = "update"
        /\ soilReqs' = [soilReqs EXCEPT ![r] =
                IF checked.outcome = "null"
                THEN [req EXCEPT !.pc = "done", !.status = 404]
                ELSE IF checked.outcome = "throw"
                THEN [req EXCEPT !.pc = "done", !.snapshot = soil, !.status = 500]
                ELSE [req EXCEPT !.pc = "write", !.snapshot = soil,
                                 !.phType = checked.phType]]
        /\ UNCHANGED <<soils, exceptSoilReqs>>

\* The rows an UPDATE ... WHERE id = :id with a version condition would match
SoilUpdateMatchesVersion(snapshot, current) == current.exists /\ current = snapshot

\* The rows Soil.update(soilDetails, { where: { id: soilId } }) matches: the
\* row of that id as it is when the statement runs
SoilUpdateMatches(snapshot, current) == current.exists

\* Soil.update resolves: updatedCount decides between the row and null
WriteSoilDetails(r) ==
    LET req == soilReqs[r]
        current == soils[req.id]
        empty == req.phMin = Undefined /\ req.phMax = Undefined /\ req.phType = NoPhType
    IN  /\ req.pc = "write"
        /\ IF ~empty /\ SoilUpdateMatches(req.snapshot, current)
           THEN /\ soils' = [soils EXCEPT ![req.id] =
                        SoilUpdateRow(current, Absent, req.phMin, req.phMax, req.phType)]
                /\ soilReqs' = [soilReqs EXCEPT ![r] = [req EXCEPT !.pc = "done", !.status = 200]]
           ELSE /\ soilReqs' = [soilReqs EXCEPT ![r] = [req EXCEPT !.pc = "done", !.status = 404]]
                /\ UNCHANGED soils
        /\ UNCHANGED exceptSoilReqs

\* DELETE /soils/:soil_id arrives: deleteSoilById calls getSoilById
BeginDeleteSoil(r, id) ==
    /\ soilReqs[r].pc = "idle"
    /\ soilReqs' = [soilReqs EXCEPT ![r] =
            SoilReq("check", "delete", id, Undefined, Undefined, NoPhType, NoSoil, 0)]
    /\ UNCHANGED <<soils, exceptSoilReqs>>

\* getSoilById resolves: 404 if there is no row, else removeSoil is called
CheckSoilForDelete(r) ==
    LET req == soilReqs[r]
        soil == getSoilById(req.id)
    IN  /\ req.pc = "check"
        /\ soilReqs' = [soilReqs EXCEPT ![r] =
                IF ~soil.exists
                THEN [req EXCEPT !.pc = "done", !.status = 404]
                ELSE [req EXCEPT !.pc = "destroy", !.snapshot = soil]]
        /\ UNCHANGED <<soils, exceptSoilReqs>>

\* removeSoil resolves; deleteSoilById does not look at the count it
\* returns and answers 204
DestroySoil(r) ==
    LET req == soilReqs[r]
    IN  /\ req.pc = "destroy"
        /\ soils' = removeSoil(req.id)
        /\ soilReqs' = [soilReqs EXCEPT ![r] = [req EXCEPT !.pc = "done", !.status = 204]]
        /\ UNCHANGED exceptSoilReqs

\* The response of a request in flight has been written; its slot is free
SoilReqSent(r) ==
    /\ soilReqs[r].pc = "done"
    /\ soilReqs' = [soilReqs EXCEPT ![r] = NoSoilReq]
    /\ UNCHANGED <<soils, exceptSoilReqs>>

----------------------------------------------------------------------------
(* The two revisions of the PestType service (isActive column; paranoid    *)
(* model) given the same service calls, each on its own table               *)

\* What a service call returned: its outcome, the id and the ids of the
\* rows in the result, and the name and description of a returned row
PestTypeReturn(outcome, id, data, name, description) ==
    [outcome |-> outcome, id |-> id, data |-> data, name |-> name, description |-> description]

NoPestTypeReturn == PestTypeReturn("none", 0, {}, Absent, Absent)

PairResponse(op, id, isActive, paranoid) ==
    [op |-> op, id |-> id, isActive |-> isActive, paranoid |-> paranoid]

NoPairResp == PairResponse("none", 0, NoPestTypeReturn, NoPestTypeReturn)

\* The unique index on name of a table
PestTypeNameTakenIn(table, name) ==
    \E i \in PestTypeIds : table[i].exists /\ table[i].name = name

\* savePestType(pestTypeDetails) on a table: the table after PestType.create
\* and what the call returned; a failed create is rethrown
savePestTypeIn(table, name, description) ==
    LET free == {i \in PestTypeIds : ~table[i].exists}
        id == CHOOSE i \in free : \A j \in free : i <= j
    IN  IF PestTypeNameTakenIn(table, name)
        THEN [table |-> table, ret |-> PestTypeReturn("throw", 0, {}, Absent, Absent)]
        ELSE [table |-> [table EXCEPT ![id] = PestTypeRow(name, description, TRUE, FALSE)],
              ret |-> PestTypeReturn("saved", id, {id}, name, description)]

\* removePestType(pestTypeId) of revision rev on a table
removePestTypeIn(rev, table, id) ==
    LET count == removePestTypeOf(rev, table, id)
    IN  [table |-> IF count = 0 THEN table
                   ELSE [table EXCEPT ![id] = PestTypeRowRemovedOf(rev, table[id])],
         ret |-> PestTypeReturn(IF count = 0 THEN "count 0" ELSE "count 1", id, {}, Absent, Absent)]

\* updatePestTypeDetails(pestTypeId, pestTypeDetails) of revision rev on a table
updatePestTypeDetailsIn(rev, table, id, details) ==
    LET result == updatePestTypeDetailsOf(rev, table, id, details)
    IN  IF result.outcome = "null"
        THEN [table |-> table, ret |-> PestTypeReturn("null", id, {}, Absent, Absent)]
        ELSE [table |-> [table EXCEPT ![id] = result.row],
              ret |-> PestTypeReturn("updated", id, {id}, result.row.name, result.row.description)]

\* service.save on both revisions
SavePestTypeBoth(name, description) ==
    LET a == savePestTypeIn(pestTypesA, name, description)
        p == savePestTypeIn(pestTypesP, name, description)
    IN  /\ ~PestTypeNameTakenIn(pestTypesA, name) => \E i \in PestTypeIds : ~pestTypesA[i].exists
        /\ ~PestTypeNameTakenIn(pestTypesP, name) => \E i \in PestTypeIds : ~pestTypesP[i].exists
        /\ pestTypesA' = a.table
        /\ pestTypesP' = p.table
        /\ pairResp' = PairResponse("save", 0, a.ret, p.ret)
        /\ UNCHANGED exceptPair

\* service.remove on both revisions
RemovePestTypeBoth(id) ==
    LET a == removePestTypeIn("isActive", pestTypesA, id)
        p == removePestTypeIn("paranoid", pestTypesP, id)
    IN  /\ pestTypesA' = a.table
        /\ pestTypesP' = p.table
        /\ pairResp' = PairResponse("remove", id, a.ret, p.ret)
        /\ UNCHANGED exceptPair

\* service.update on both revisions
UpdatePestTypeBoth(id, description) ==
    LET details == [description |-> description, name |-> Absent]
        a == updatePestTypeDetailsIn("isActive", pestTypesA, id, details)
        p == updatePestTypeDetailsIn("paranoid", pestTypesP, id, details)
    IN  /\ pestTypesA' = a.table
        /\ pestTypesP' = p.table
        /\ pairResp' = PairResponse("update", id, a.ret, p.ret)
        /\ UNCHANGED exceptPair

\* service.getAll(isIncludeInActive) on both revisions
GetAllPestTypesBoth(isIncludeInActive) ==
    /\ pairResp' = PairResponse("getAll", 0,
            PestTypeReturn("rows", 0, getAllPestTypesOf("isActive", pestTypesA, isIncludeInActive),
                           Absent, Absent),
            PestTypeReturn("rows", 0, getAllPestTypesOf("paranoid", pestTypesP, isIncludeInActive),
                           Absent, Absent))
    /\ UNCHANGED <<pestTypesA, pestTypesP, exceptPair>>

\* The caller has taken the two results
PairReturned ==
    /\ pairResp # NoPairResp
    /\ pairResp' = NoPairResp
    /\ UNCHANGED <<pestTypesA, pestTypesP, exceptPair>>

----------------------------------------------------------------------------
(* Page by page listing: getAllPlants / getAllSoils called for several      *)
(* pages with the same filters, sort and limit on an unchanged table.  The  *)
(* records are the rows the filters match; a record's id stands for its     *)
(* name, which is unique, and createdAt is the timestamp of its insert,     *)
(* which two records can share.                                             *)

MaxRecords == 3
MaxClock == 2
MaxPageLimit == 2
MaxListPage == 4

RecordIds == 1..Len(listRecords)
ListPages == 1..MaxListPage
SORT_PARAMS == {"name", "createdAt"}

\* The value of the sort column of a record
SortKey(sortBy, id) == IF sortBy = "name" THEN id ELSE listRecords[id]

\* ORDER BY sortBy sortOrder: an order of the records that agrees with the
\* sort column; the order among records with equal values is not fixed
IsOrderedBy(order, sortBy, sortOrder) ==
    \A i \in 1..Len(order), j \in 1..Len(order) :
        i < j => IF sortOrder = "asc"
                 THEN SortKey(sortBy, order[i]) <= SortKey(sortBy, order[j])
                 ELSE SortKey(sortBy, order[i]) >= SortKey(sortBy, order[j])

\* The orders in which one query can see the records
QueryOrders(sortBy, sortOrder) ==
    {order \in [RecordIds -> RecordIds] :
        /\ \A i \in RecordIds, j \in RecordIds : i # j => order[i] # order[j]
        /\ IsOrderedBy(order, sortBy, sortOrder)}

\* LIMIT limit OFFSET offset on the records in the given order
PageOf(order, limit, offset) ==
    {order[i] : i \in {k \in 1..Len(order) : k > offset /\ k <= offset + limit}}

NotFetched == [fetched |-> FALSE, rows |-> {}]

Listing(sortBy, sortOrder, limit, pages) ==
    [sortBy |-> sortBy, sortOrder |-> sortOrder, limit |-> limit, pages |-> pages]

NoListing == Listing("none", "asc", 1, [p \in ListPages |-> NotFetched])

\* A row is inserted; its createdAt is not before that of the rows already
\* there.  The table does not change while a listing is going on.
InsertRecord(createdAt) ==
    /\ listing = NoListing
    /\ Len(listRecords) < MaxRecords
    /\ Len(listRecords) > 0 => createdAt >= listRecords[Len(listRecords)]
    /\ listRecords' = Append(listRecords, createdAt)
    /\ UNCHANGED <<listing, exceptPage>>

\* A client starts to read the list with a sort and a limit
StartListing(sortBy, sortOrder, limit) ==
    /\ listing = NoListing
    /\ listing' = Listing(sortBy, sortOrder, limit, [p \in ListPages |-> NotFetched])
    /\ UNCHANGED <<listRecords, exceptPage>>

\* getAllPlants({ limit, page }, { sortBy, sortOrder }, filters): one query
\* with offset = (page - 1) * limit
FetchListPage(page) ==
    /\ listing.sortBy # "none"
    /\ ~listing.pages[page].fetched
    /\ \E order \in QueryOrders(listing.sortBy, listing.sortOrder) :
          listing' = [listing EXCEPT !.pages[page] =
                [fetched |-> TRUE,
                 rows |-> PageOf(order, listing.limit, (page - 1) * listing.limit)]]
    /\ UNCHANGED <<listRecords, exceptPage>>

\* The client is done with the listing
ListingDone ==
    /\ listing # NoListing
    /\ listing' = NoListing
    /\ UNCHANGED <<listRecords, exceptPage>>

----------------------------------------------------------------------------
(* Specifications *)

\* The state after start-up with the given PestType revision: empty tables,
\* no response pending
InitWith(rev) ==
    /\ soils = [i \in SoilIds |-> NoSoil]
    /\ soilResp = NoSoilResp
    /\ stages = [i \in StageIds |-> NoStage]
    /\ stageResp = NoStageResp
    /\ listResp = NoList
    /\ routeResp = NoRoute
    /\ InitPest(rev)
    /\ InitPathogenType
    /\ arrayResp = NoArrayResp
    /\ InitPlant
    /\ soilReqs = [r \in SoilRequests |-> NoSoilReq]
    /\ patchCalls = <<>>
    /\ pestTypesA = [i \in PestTypeIds |-> NoPestType]
    /\ pestTypesP = [i \in PestTypeIds |-> NoPestType]
    /\ pairResp = NoPairResp
    /\ listRecords = <<>>
    /\ listing = NoListing

\* Start-up with the current (paranoid) PestType model
Init == InitWith("paranoid")

\* Start-up with either PestType revision
InitPestType == \E rev \in PestTypeRevs : InitWith(rev)

PhRequestValues == PhInputs \cup {Undefined}
DayRequestValues == 0..MaxDays \cup {Undefined}

\* Soil requests
NextSoil ==
    \/ /\ soilResp = NoSoilResp
       /\ \/ \E nameRaw \in SoilNameInputs \cup {""},
                phMinRaw, phMaxRaw \in PhRequestValues \cup {PhOutOfRange} :
                CreateSoil(nameRaw, phMinRaw, phMaxRaw)
          \/ \E id \in SoilIds, extraKey, hasOther \in BOOLEAN,
                nameReq \in SoilNameInputs \cup {Absent},
                phMinReq, phMaxReq \in PhRequestValues :
                UpdateSoil(id, extraKey, hasOther, nameReq, phMinReq, phMaxReq)
          \/ \E id \in SoilIds : FetchSoilById(id)
          \/ \E id \in SoilIds : DeleteSoilById(id)
    \/ SoilSent

SpecSoil == Init /\ [][NextSoil]_vars

\* GrowthStage requests
NextStage ==
    \/ /\ stageResp = NoStageResp
       /\ \/ \E minRaw, maxRaw \in DayRequestValues : CreateGrowthStage(minRaw, maxRaw)
          \/ \E id \in StageIds, hasDescription \in BOOLEAN, minReq, maxReq \in DayRequestValues :
                UpdateGrowthStage(id, hasDescription, minReq, maxReq)
    \/ StageSent

SpecStage == Init /\ [][NextStage]_vars

\* List requests
NextList ==
    \/ /\ listResp = NoList
       /\ \E limitRaw \in Undefined..MaxReqLimit, pageRaw \in Undefined..MaxReqPage,
             count \in 0..MaxItems :
             \/ FetchAllPlants(limitRaw, pageRaw, count)
             \/ FetchAllPlantsRev1(limitRaw, pageRaw, count)
             \/ FetchAllSoils(limitRaw, pageRaw, count)
    \/ ListSent

SpecList == Init /\ [][NextList]_vars

\* Requests to the list routes
PlantQueries ==
    [page : RouteNumberInputs, limit : RouteNumberInputs, sort_by : SortByInputs,
     sort_order : SortOrderInputs, purpose : PurposeInputs]

SoilQueries ==
    [page : RouteNumberInputs, limit : RouteNumberInputs, sort_by : SortByInputs,
     sort_order : SortOrderInputs, drainage : DrainageInputs, texture : TextureInputs]

NextRoute ==
    \/ /\ routeResp = NoRoute
       /\ \/ \E q \in PlantQueries, count \in RouteCounts : GetPlants(q, count)
          \/ \E q \in SoilQueries, count \in RouteCounts : GetSoils(q, count)
    \/ RouteSent

SpecRoute == Init /\ [][NextRoute]_vars

\* PestType requests and service calls
NextPestType ==
    \/ /\ pestTypeResp = NoPestTypeResp
       /\ \/ \E nameReq \in PestTypeNameInputs, descReq \in DescriptionInputs :
                CreatePestType(nameReq, descReq)
          \/ \E id \in PestTypeIds : DeletePestTypeById(id)
          \/ \E id \in PestTypeIds, descReq \in DescriptionInputs,
                nameReq \in PestTypeNameInputs \cup {Absent} :
                PatchUpdatePestTypeById(id, descReq, nameReq)
          \/ \E isIncludeInActive \in BOOLEAN : GetAllPestTypes(isIncludeInActive)
          \/ FetchAllPestTypes
    \/ PestTypeSent

SpecPestType == InitPestType /\ [][NextPestType]_vars

\* Pest requests
NextPest ==
    \/ /\ pestResp = NoPestResp
       /\ \/ \E descReq \in DescriptionInputs : CreatePest(descReq)
          \/ \E id \in PestIds : FetchPestById(id)
          \/ \E id \in PestIds, descReq \in DescriptionInputs : UpdatePestDetailsById(id, descReq)
          \/ \E id \in PestIds : DeletePestById(id)
    \/ PestSent

SpecPest == Init /\ [][NextPest]_vars

\* PathogenType requests
NextPathogenType ==
    \/ /\ pathogenTypeResp = NoPathogenTypeResp
       /\ \/ \E nameRaw \in PathogenTypeNameInputs : CreatePathogenType(nameRaw)
          \/ \E id \in PathogenTypeIds : FetchPathogenTypeById(id)
          \/ \E id \in PathogenTypeIds : DeletePathogenType(id)
    \/ PathogenTypeSent

SpecPathogenType == Init /\ [][NextPathogenType]_vars

\* Requests with a list-valued field
NextStringArray ==
    \/ /\ arrayResp = NoArrayResp
       /\ \/ \E arr \in ArrayInputs : ValidateStringArray(arr)
          \/ ValidateAbsentArray
    \/ ArraySent

SpecStringArray == Init /\ [][NextStringArray]_vars

\* Plant write requests
NextPlant ==
    \/ /\ plantResp = NoPlantResp
       /\ \/ \E arr \in StageListInputs : CreatePlant(TRUE, arr)
          \/ CreatePlant(FALSE, <<>>)
          \/ \E id \in PlantIds, arr \in StageListInputs : UpdatePlantDetailsById(id, TRUE, arr)
          \/ \E id \in PlantIds : UpdatePlantDetailsById(id, FALSE, <<>>)
    \/ PlantSent

SpecPlant == Init /\ [][NextPlant]_vars

\* Soil requests in flight, on rows made by POST /soils
NextSoilRace ==
    \/ /\ soilResp = NoSoilResp
       /\ \E phMinRaw \in {Undefined, 6}, phMaxRaw \in {Undefined, 8} :
              CreateSoil("loam", phMinRaw, phMaxRaw)
    \/ SoilSent
    \/ \E r \in SoilRequests, id \in SoilIds, body \in SoilRaceBodies :
            BeginUpdateSoil(r, id, body.ph_min, body.ph_max)
    \/ \E r \in SoilRequests : ReadSoilForUpdate(r)
    \/ \E r \in SoilRequests : WriteSoilDetails(r)
    \/ \E r \in SoilRequests, id \in SoilIds : BeginDeleteSoil(r, id)
    \/ \E r \in SoilRequests : CheckSoilForDelete(r)
    \/ \E r \in SoilRequests : DestroySoil(r)
    \/ \E r \in SoilRequests : SoilReqSent(r)

SpecSoilRace == Init /\ [][NextSoilRace]_vars

\* The same service calls on both PestType revisions
NextPestTypePair ==
    \/ /\ pairResp = NoPairResp
       /\ \/ \E name \in {"insect", "mite"}, description \in {Absent, "chews leaves"} :
                SavePestTypeBoth(name, description)
          \/ \E id \in PestTypeIds : RemovePestTypeBoth(id)
          \/ \E id \in PestTypeIds, description \in {Absent, "chews leaves", "bores stems"} :
                UpdatePestTypeBoth(id, description)
          \/ \E isIncludeInActive \in BOOLEAN : GetAllPestTypesBoth(isIncludeInActive)
    \/ PairReturned

SpecPestTypePair == Init /\ [][NextPestTypePair]_vars

\* Listings page by page
NextListing ==
    \/ \E createdAt \in 1..MaxClock : InsertRecord(createdAt)
    \/ \E sortBy \in SORT_PARAMS, sortOrder \in {"asc", "desc"}, limit \in 1..MaxPageLimit :
          StartListing(sortBy, sortOrder, limit)
    \/ \E page \in ListPages : FetchListPage(page)
    \/ ListingDone

SpecListing == Init /\ [][NextListing]_vars

----------------------------------------------------------------------------
(* Soil pH claims, checked under SpecSoil *)

BothBoundsStored(row) == row.exists /\ row.phMin # Undefined /\ row.phMax # Undefined

\* C1: in every reachable state, every stored Soil that has both phMin and
\* phMax satisfies phMin <= phMax.
C1_PhMinLePhMax ==
    \A i \in SoilIds : BothBoundsStored(soils[i]) => soils[i].phMin <= soils[i].phMax

\* The phType the data model prescribes for a pair of bounds
ExpectedPhType(phMin, phMax) ==
    IF phMax > PH_NEUTRAL THEN ALKALINE
    ELSE IF phMin < PH_NEUTRAL THEN ACIDIC
    ELSE NEUTRAL

\* C2: for every stored Soil with both bounds present, the stored phType is
\* the value derived from the stored bounds (alkaline if phMax > 7, otherwise
\* acidic if phMin < 7, otherwise neutral), also after an update that changed
\* only one bound.
C2_PhTypeDerivedFromStoredBounds ==
    \A i \in SoilIds :
        BothBoundsStored(soils[i]) =>
            soils[i].phType = ExpectedPhType(soils[i].phMin, soils[i].phMax)

\* C3: a Soil create with both ph_min and ph_max supplied in 0..14 and
\* ph_min <= ph_max persists phType alkaline iff ph_max > 7, acidic iff
\* ph_max <= 7 and ph_min < 7, and neutral otherwise.
C3_CreatePersistsDerivedPhType ==
    ( /\ soilResp.op = "create"
      /\ soilResp.status = 201
      /\ soilResp.phMinReq \in PH_FLOAT_MIN..PH_FLOAT_MAX
      /\ soilResp.phMaxReq \in PH_FLOAT_MIN..PH_FLOAT_MAX
      /\ soilResp.phMinReq <= soilResp.phMaxReq )
    => soils[soilResp.id].phType = ExpectedPhType(soilResp.phMinReq, soilResp.phMaxReq)

\* C4: a partial update whose body is only ph_min, greater than the stored
\* phMax, is rejected with the message 'ph_min is greater than ph_max' and
\* leaves the table unchanged; one whose body is only ph_max, less than the
\* stored phMin, is rejected with 'ph_max is lesser than ph_min' and leaves
\* the table unchanged.
C4_OneSidedPatchRejectedWithMessage ==
    [][\A id \in SoilIds, v \in PhInputs :
         /\ ( /\ soils[id].exists
              /\ soils[id].phMax # Undefined
              /\ v > soils[id].phMax
              /\ UpdateSoil(id, FALSE, FALSE, Absent, v, Undefined) )
            => ( /\ soils' = soils
                 /\ soilResp'.status >= 400
                 /\ soilResp'.message = "ph_min is greater than ph_max" )
         /\ ( /\ soils[id].exists
              /\ soils[id].phMin # Undefined
              /\ v < soils[id].phMin
              /\ UpdateSoil(id, FALSE, FALSE, Absent, Undefined, v) )
            => ( /\ soils' = soils
                 /\ soilResp'.status >= 400
                 /\ soilResp'.message = "ph_max is lesser than ph_min" )
      ]_vars

----------------------------------------------------------------------------
(* GrowthStage day-range claim, checked under SpecStage *)

\* C5: in every reachable state, every stored GrowthStage with both minDays
\* and maxDays has minDays < maxDays (a patch of one bound being checked
\* against the stored opposite bound).
C5_MinDaysLtMaxDays ==
    \A i \in StageIds :
        ( /\ stages[i].exists
          /\ stages[i].minDays # Undefined
          /\ stages[i].maxDays # Undefined )
        => stages[i].minDays < stages[i].maxDays

----------------------------------------------------------------------------
(* Pagination claims, checked under SpecList *)

Listed == listResp # NoList

\* The handlers of the current Plant and Soil list endpoints
CurrentListHandlers == {"fetchAllPlants", "fetchAllSoils"}

HasKey(meta, key) == key \in DOMAIN meta

\* C6: for every list response of Plant and Soil, hasPreviousPage equals
\* (currentPage > 1), also on the last page and on pages past the last.
C6_HasPreviousPageIffPageGtOne ==
    Listed =>
        (listResp.pagination.hasPreviousPage <=> listResp.pagination.currentPage > 1)

\* C7: a list request for a page beyond totalPages is answered with status
\* 200 and zero rows; the metadata has hasExceededPage (with value true)
\* exactly when totalItems > 0 and currentPage > totalPages, so the key is
\* omitted for every page when totalItems = 0.
C7_ExceededPageFlag ==
    (Listed /\ listResp.handler \in CurrentListHandlers) =>
        LET meta == listResp.pagination
        IN  /\ listResp.status = 200
            /\ meta.currentPage > meta.totalPages => listResp.data = {}
            /\ HasKey(meta, "hasExceededPage")
                  <=> (meta.totalItems > 0 /\ meta.currentPage > meta.totalPages)
            /\ HasKey(meta, "hasExceededPage") => meta.hasExceededPage = TRUE
            /\ meta.totalItems = listResp.count

\* C7 witness: 95 plants, 10 per page, page 11 requested: no rows and the
\* hasExceededPage flag
C7_Witness ==
    /\ Listed
    /\ listResp.handler = "fetchAllPlants"
    /\ listResp.count = 95
    /\ listResp.pagination.pageSize = 10
    /\ listResp.pagination.currentPage = 11
    /\ listResp.data = {}
    /\ HasKey(listResp.pagination, "hasExceededPage")

\* C8: the effective limit, reported as pageSize, is the requested limit
\* clamped to [1, maxLimit] (100 for Plant, 50 for Soil): a requested value
\* from 1 to maxLimit is used unchanged, a larger one becomes maxLimit, and
\* an absent limit becomes the default 10.
C8_LimitClampedToOneMax ==
    Listed =>
        LET raw == listResp.limitRaw
            pageSize == listResp.pagination.pageSize
        IN  /\ raw = Undefined => pageSize = 10
            /\ (raw >= 1 /\ raw <= listResp.maxLimit) => pageSize = raw
            /\ raw > listResp.maxLimit => pageSize = listResp.maxLimit

\* C9: maxLimitApplied is in the metadata, with value true, exactly when
\* pageSize equals the resource's maximum limit, whatever the page and
\* whether or not hasExceededPage is set.
C9_MaxLimitAppliedIffPageSizeIsMax ==
    Listed =>
        LET meta == listResp.pagination
        IN  /\ HasKey(meta, "maxLimitApplied") <=> meta.pageSize = listResp.maxLimit
            /\ HasKey(meta, "maxLimitApplied") => meta.maxLimitApplied = TRUE

\* C10: totalPages is the least number of pages of pageSize rows that hold
\* totalItems rows, and hasNextPage holds exactly when some matching record
\* lies after the current page (currentPage * pageSize < totalItems).
C10_TotalPagesAndHasNextPage ==
    Listed =>
        LET meta == listResp.pagination
        IN  /\ meta.totalItems = listResp.count
            /\ meta.totalPages * meta.pageSize >= meta.totalItems
            /\ meta.totalPages >= 0
            /\ meta.totalPages > 0 => (meta.totalPages - 1) * meta.pageSize < meta.totalItems
            /\ meta.hasNextPage <=> meta.currentPage * meta.pageSize < meta.totalItems

\* C10 witness: 95 soils, 10 per page, page 9: 10 pages and a next page
C10_Witness ==
    /\ Listed
    /\ listResp.handler = "fetchAllSoils"
    /\ listResp.count = 95
    /\ listResp.pagination.pageSize = 10
    /\ listResp.pagination.currentPage = 9
    /\ listResp.pagination.totalPages = 10
    /\ listResp.pagination.hasNextPage

----------------------------------------------------------------------------
(* List route claims, checked under SpecRoute *)

Routed == routeResp # NoRoute

PagingSortKeys == {"page", "limit", "sort_by", "sort_order"}

\* C11: a list request that goes through the route (query validator, error
\* handler, controller) never ends in a validation error because of its
\* page, limit, sort_by or sort_order value: no such key is among the
\* reported errors, and when no filter is rejected the request succeeds with
\* a sort field and a sort order of the allowed sets.
C11_PagingSortNeverRejected ==
    Routed =>
        /\ routeResp.errors \cap PagingSortKeys = {}
        /\ routeResp.errors = {} =>
              /\ routeResp.status = 200
              /\ routeResp.sorting.sortOrder \in SORT_ORDERS
              /\ routeResp.sorting.sortBy \in PLANT_SORT_PARAMS \cup SOIL_SORT_PARAMS

\* The filterable fields a route's request carries in the model, and the
\* closed set of each
RouteFilterFields(route) == IF route = "GET /plants" THEN {"purpose"} ELSE {"drainage", "texture"}

ClosedSet(field) ==
    IF field = "purpose" THEN PLANT_PURPOSE
    ELSE IF field = "drainage" THEN SOIL_DRAINAGE
    ELSE SOIL_TEXTURE

\* C12: a filter value outside the closed set of its field yields a
\* validation error that names the field, and no query is run: the value is
\* neither dropped silently nor passed to the store.
C12_BadFilterRejected ==
    Routed =>
        \A f \in RouteFilterFields(routeResp.route) :
            (routeResp.query[f] # Absent /\ routeResp.query[f] \notin ClosedSet(f))
            => /\ routeResp.status = 400
               /\ f \in routeResp.errors
               /\ ~routeResp.queried

----------------------------------------------------------------------------
(* PestType soft-delete claims, checked under SpecPestType *)

\* A PestType that has been removed
PestTypeRemoved(row) == row.exists /\ (~row.isActive \/ row.deleted)

RemovedPestTypeIds == {i \in PestTypeIds : PestTypeRemoved(pestTypes[i])}

\* C13: after a PestType has been removed, a default listing of pest types
\* excludes it and a listing with the include-inactive flag includes it, for
\* the service call and for the list endpoint of the controller.
C13_RemovedExcludedByDefault ==
    pestTypeResp.op \in {"getAllPestTypes", "fetchAllPestTypes"} =>
        IF pestTypeResp.includeInactive
        THEN RemovedPestTypeIds \subseteq pestTypeResp.data
        ELSE RemovedPestTypeIds \cap pestTypeResp.data = {}

----------------------------------------------------------------------------
(* Soil hard-delete claim, checked under SpecSoil *)

\* C15: a delete of an existing Soil reports success and removes the row; a
\* delete of the same id after that, or of an id that was never created,
\* reports not-found and changes nothing; and a deleted id is never
\* readable again: its row stays absent and a read of it reports not-found.
C15_HardDeleteNotIdempotent ==
    [][\A i \in SoilIds :
          /\ (soilResp'.op = "delete" /\ soilResp'.id = i) =>
                IF soils[i].exists
                THEN soilResp'.status = 204 /\ ~soils'[i].exists
                ELSE soilResp'.status = 404 /\ soils' = soils
          /\ (soils[i].idUsed /\ ~soils[i].exists) => ~soils'[i].exists
          /\ (soilResp'.op = "fetchById" /\ soilResp'.id = i /\ ~soils[i].exists) =>
                soilResp'.status = 404
      ]_vars

\* C15 witness: the second delete of a soil that was created and deleted
\* has been answered with 404
C15_Witness ==
    /\ soilResp.op = "delete"
    /\ soilResp.status = 404
    /\ soils[soilResp.id].idUsed
    /\ ~soils[soilResp.id].exists

----------------------------------------------------------------------------
(* Patch allow-list claim, checked under SpecPestType *)

----------------------------------------------------------------------------
(* Failure frame claim, checked under SpecSoil *)

\* A create or partial update of a Soil was answered with a failure of
\* validation: the 400 of the validator or of the allow-list check, or the
\* 500 of a request the service refused (pH bounds out of order, name taken)
SoilValidationFailure(resp) ==
    resp.op \in {"create", "update"} /\ resp.status \in {400, 500}

----------------------------------------------------------------------------
(* Aggregated validation errors claim, checked under SpecSoil *)

\* The fields of a POST /soils payload whose own rule is violated: name is
\* required and not blank, ph_min and ph_max lie in 0..14
SoilFieldsViolated(nameRaw, phMinRaw, phMaxRaw) ==
    (IF nameRaw \in {Absent, ""} THEN {"name"} ELSE {})
    \cup (IF phMinRaw # Undefined /\ (phMinRaw < PH_FLOAT_MIN \/ phMinRaw > PH_FLOAT_MAX)
          THEN {"ph_min"} ELSE {})
    \cup (IF phMaxRaw # Undefined /\ (phMaxRaw < PH_FLOAT_MIN \/ phMaxRaw > PH_FLOAT_MAX)
          THEN {"ph_max"} ELSE {})

----------------------------------------------------------------------------
(* Not-found claim, checked under SpecPest *)

\* C19: every get-by-id, partial-update or delete request for a Pest id that
\* does not exist or has been removed is answered with 404, never with a
\* success (a PATCH without any patchable key, refused before the lookup,
\* is left aside).
C19_MissingIdAnsweredNotFound ==
    [][\A i \in PestIds :
          ( /\ pestResp'.op \in {"fetchById", "update", "delete"}
            /\ pestResp'.id = i
            /\ pestResp'.status # 400
            /\ ~getPestById(i).exists )
          => pestResp'.status = 404
      ]_vars

----------------------------------------------------------------------------
(* Uniqueness conflict claim, checked under SpecSoil *)

\* C20: a valid Soil create whose name is already stored leaves the soils
\* table unchanged and is answered with a conflict (409), not with the
\* answer of an internal persistence failure.
C20_DuplicateNameIsConflict ==
    [][( /\ soilResp'.op = "create"
         /\ soilResp'.status # 400
         /\ SoilNameTaken(soilResp'.nameReq, 0) )
       => ( /\ soils' = soils
            /\ soilResp'.status = 409
            /\ soilResp'.message # "Failed to save soil" )
      ]_vars

----------------------------------------------------------------------------
(* Closed-set membership claim, checked under SpecPathogenType *)

\* C21: a PathogenType name that equals an allowed token after trimming and
\* lower-casing is accepted by the create validator, and every other name is
\* rejected with a validation error naming the field.
C21_MembershipIgnoresCaseAndPadding ==
    pathogenTypeResp.op = "create" =>
        LET candidate == IF pathogenTypeResp.nameReq = Absent THEN ""
                         ELSE ToLowerCase(Trim(pathogenTypeResp.nameReq))
        IN  IF candidate \in PATHOGEN_TYPE
            THEN pathogenTypeResp.status # 400
            ELSE pathogenTypeResp.status = 400 /\ "name" \in pathogenTypeResp.errors

----------------------------------------------------------------------------
(* List sanitisation claim, checked under SpecStringArray *)

\* The trimmed non-blank strings of a list
TrimmedStringsOf(arr) ==
    {Trim(arr[i]) : i \in {k \in 1..Len(arr) : arr[k] # NotAString /\ Trim(arr[k]) # ""}}

\* The position of the first item of arr that trims to v
FirstIndexOf(arr, v) ==
    CHOOSE i \in 1..Len(arr) :
        /\ arr[i] # NotAString /\ Trim(arr[i]) = v
        /\ \A k \in 1..(i - 1) : arr[k] = NotAString \/ Trim(arr[k]) # v

----------------------------------------------------------------------------
(* Growth-stage vocabulary claim, checked under SpecPlant *)

\* C23: after any sequence of Plant create and partial-update requests,
\* every element of every stored Plant's growthStages is one of the tokens
\* of the closed growth-stage vocabulary.
C23_StoredGrowthStagesInVocabulary ==
    \A i \in PlantIds :
        plants[i].exists =>
            \A k \in 1..Len(plants[i].growthStages) :
                plants[i].growthStages[k] \in PLANT_GROWTH_STAGE

----------------------------------------------------------------------------
(* Concurrent Soil request claims, checked under SpecSoilRace *)

\* C24: nothing in the fetch-validate-write sequence of a Soil partial
\* update stops a write that was validated against a row read earlier: when
\* Soil.update runs with a bound to write on a row that still exists, it
\* commits the request's bounds and the request is answered 200, whatever
\* has been written to the row since the request read it.  (C24_Witness is the interleaving of a
\* ph_min-only and a ph_max-only update that ends with phMin > phMax.)
C24_StaleWriteCommits ==
    [][\A r \in SoilRequests :
          ( /\ soilReqs[r].pc = "write"
            /\ soilReqs'[r].pc = "done"
            /\ soilReqs[r].phMin # Undefined \/ soilReqs[r].phMax # Undefined
            /\ soils[soilReqs[r].id].exists )
          => /\ soilReqs'[r].status = 200
             /\ soilReqs[r].phMin # Undefined
                    => soils'[soilReqs[r].id].phMin = soilReqs[r].phMin
             /\ soilReqs[r].phMax # Undefined
                    => soils'[soilReqs[r].id].phMax = soilReqs[r].phMax]_vars

\* Two updates of one row, one with ph_min only and one with ph_max only,
\* each read the row before the other wrote it, both were answered 200 and
\* the row now has phMin > phMax
C24_Witness ==
    \E p \in SoilRequests, q \in SoilRequests :
        LET a == soilReqs[p]
            b == soilReqs[q]
        IN  /\ p # q
            /\ a.op = "update" /\ b.op = "update"
            /\ a.pc = "done" /\ b.pc = "done"
            /\ a.status = 200 /\ b.status = 200
            /\ a.id = b.id
            /\ a.phMin # Undefined /\ a.phMax = Undefined
            /\ b.phMax # Undefined /\ b.phMin = Undefined
            /\ a.snapshot.phMax # b.phMax
            /\ b.snapshot.phMin # a.phMin
            /\ soils[a.id].exists
            /\ soils[a.id].phMin = a.phMin
            /\ soils[a.id].phMax = b.phMax
            /\ soils[a.id].phMin > soils[a.id].phMax

\* C25: of two delete requests in flight for the same Soil id, at most one
\* is answered 204 (deleted); the other is answered 404
C25_OneDeleteSucceeds ==
    \A p \in SoilRequests, q \in SoilRequests :
        ( /\ p # q
          /\ soilReqs[p].op = "delete" /\ soilReqs[q].op = "delete"
          /\ soilReqs[p].id = soilReqs[q].id
          /\ soilReqs[p].pc = "done" /\ soilReqs[q].pc = "done" )
        => ~(soilReqs[p].status = 204 /\ soilReqs[q].status = 204)

----------------------------------------------------------------------------
(* Single response claim, checked under SpecPestType *)

\* C26: an invocation of patchUpdatePestTypeById makes exactly one
\* res.status(..).json(..) call, the one whose response the client
\* receives; for a missing id that is the 404 call and nothing after it
C26_OneResponsePerInvocation ==
    pestTypeResp.op = "patchUpdate" =>
        patchCalls = <<pestTypeResp.status>>

----------------------------------------------------------------------------
(* Zero-valued bound claim, checked under SpecSoil *)

\* C27: a Soil create answered 201 or a partial update answered 200 whose
\* body has ph_min = 0 (or ph_max = 0) leaves the row with phMin = 0 (or
\* phMax = 0)
C27_ZeroBoundStored ==
    ( \/ soilResp.op = "create" /\ soilResp.status = 201
      \/ soilResp.op = "update" /\ soilResp.status = 200 )
    => /\ soilResp.phMinReq = 0 => soils[soilResp.id].phMin = 0
       /\ soilResp.phMaxReq = 0 => soils[soilResp.id].phMax = 0

----------------------------------------------------------------------------
(* Revision equivalence claim, checked under SpecPestTypePair *)

\* C28: given the same sequence of save, remove, update and getAll calls,
\* the isActive revision and the paranoid revision of the PestType service
\* return the same result for every call
C28_RevisionsReturnTheSame ==
    pairResp.isActive = pairResp.paranoid

----------------------------------------------------------------------------
(* Name uniqueness claim, checked under SpecPestType *)

PestTypeNamesDistinct ==
    \A i \in PestTypeIds, j \in PestTypeIds :
        (i # j /\ pestTypes[i].exists /\ pestTypes[j].exists)
            => pestTypes[i].name # pestTypes[j].name

CreateOfRemovedNameFails ==
    ( /\ pestTypeResp.op = "none"
      /\ pestTypeResp'.op = "create"
      /\ \E i \in PestTypeIds :
            /\ PestTypeRemoved(pestTypes[i])
            /\ pestTypes[i].name = PestTypeNameSanitized(pestTypeResp'.nameReq) )
    => /\ pestTypeResp'.status = 500
       /\ pestTypes' = pestTypes

\* C29: no two PestType rows, active or removed, share a name, and a create
\* with the name of a removed row fails and leaves the table unchanged
C29_NameUniqueAcrossRemoved ==
    []PestTypeNamesDistinct /\ [][CreateOfRemovedNameFails]_vars

\* A create has been answered 500 because a removed row holds its name
C29_Witness ==
    /\ pestTypeResp.op = "create"
    /\ pestTypeResp.status = 500
    /\ \E i \in PestTypeIds :
          /\ PestTypeRemoved(pestTypes[i])
          /\ pestTypes[i].name = PestTypeNameSanitized(pestTypeResp.nameReq)

----------------------------------------------------------------------------
(* Page partition claim, checked under SpecListing *)

ListingTotalPages == CeilDiv(Len(listRecords), listing.limit)

\* C30: on an unchanged table with one sort and one limit, the pages
\* 1..totalPages are pairwise disjoint, together they hold every matching
\* record, a page holds at most limit rows, only the last page holds fewer,
\* and a page above totalPages is empty
C30_PagesPartitionTheRecords ==
    listing.sortBy # "none" =>
        /\ \A p \in ListPages, q \in ListPages :
              (p # q /\ listing.pages[p].fetched /\ listing.pages[q].fetched)
                  => listing.pages[p].rows \cap listing.pages[q].rows = {}
        /\ (\A p \in 1..ListingTotalPages : p \in ListPages /\ listing.pages[p].fetched)
              => UNION {listing.pages[p].rows : p \in 1..ListingTotalPages} = RecordIds
        /\ \A p \in ListPages :
              listing.pages[p].fetched =>
                  /\ Cardinality(listing.pages[p].rows) <= listing.limit
                  /\ p < ListingTotalPages
                        => Cardinality(listing.pages[p].rows) = listing.limit
                  /\ p > ListingTotalPages => listing.pages[p].rows = {}

====
